---- MODULE Spec2Model ----
(***************************************************************************)
(* A model of kat's policy evaluator (internal/evaluator/evaluator.go):    *)
(* EvaluateValidating, EvaluateMutating and EvaluateTest, with the helpers *)
(* they call; of the loader that assembles a test from its files; of the   *)
(* reporter; and of the command (main.go).                                 *)
(*                                                                         *)
(* Conventions                                                             *)
(*  - A Go string is a sequence of tokens: "" is <<>>, "a" + "b" is        *)
(*    <<"a", "b">>.  The token " " is whitespace.                          *)
(*  - A JSON value is S(s) (a scalar), or M(f) (a mapping, f a function    *)
(*    from keys to JSON values).  The scalar "int64:1" is the integer 1    *)
(*    as the YAML loader leaves it, "float64:1" the same number after      *)
(*    encoding/json has decoded it.                                        *)
(*  - *unstructured.Unstructured is a reference: an index into the heap,   *)
(*    a sequence of JSON mappings; 0 is the nil pointer.                   *)
(*  - CEL itself is a library.  An expression is a string of a small       *)
(*    vocabulary whose value CelEval gives.                                *)
(*  - Every function that evaluates expressions also returns the trace of  *)
(*    its evaluateExpression calls, in the order they were made.           *)
(***************************************************************************)
EXTENDS Naturals, Sequences, FiniteSets, TLC

VARIABLES
    tc,     \* the inputs of the call: policy, binding, objects, expectation
    heap,   \* the objects in memory, by reference
    pc,     \* "ready" before the call, "done" after it
    out,    \* what the call returned
    rep,    \* the Reporter of a sequence of reporter calls, Nil in the other runs
    calls   \* the reporter calls made so far, counted by kind and by test

vars == <<tc, heap, pc, out, rep, calls>>

---------------------------------------------------------------------------
(* Bounds of the model.                                                    *)
MaxExprs == 3       \* expressions (conditions, annotations, validations or mutations) in one policy
MaxTests == 3       \* tests started by a reporter, and tests in one suite

---------------------------------------------------------------------------
(* JSON values.                                                            *)
S(s) == [s |-> s]
M(f) == [m |-> f]
IsMap(v) == "m" \in DOMAIN v
EmptyMap == M(<<>>)

Put(f, k, v) == [x \in (DOMAIN f) \cup {k} |-> IF x = k THEN v ELSE f[x]]
Del(f, k) == [x \in (DOMAIN f) \ {k} |-> f[x]]

(* encoding/json: Marshal then Unmarshal into map[string]any.  Every number *)
(* comes back as float64; strings and the shape are kept.                   *)
JSONScalar(s) == IF s = "int64:1" THEN "float64:1" ELSE s

RECURSIVE JSONRoundTrip(_)
JSONRoundTrip(v) ==
    IF IsMap(v)
    THEN M([k \in DOMAIN v.m |-> JSONRoundTrip(v.m[k])])
    ELSE S(JSONScalar(v.s))

(* A copy that is the object itself.                                       *)
DeepCopy_Alias(h, ref) == [ref |-> ref, heap |-> h]

(* Unstructured.DeepCopy: nil for nil, otherwise a new object with an   *)
(* equal mapping.                                                          *)
DeepCopy(h, ref) ==
    IF ref = 0
    THEN [ref |-> 0, heap |-> h]
    ELSE [ref |-> Len(h) + 1, heap |-> Append(h, h[ref])]

---------------------------------------------------------------------------
(* Go strings.                                                             *)
TrimSpaceIsEmpty(str) == \A i \in 1..Len(str) : str[i] = " "

(* errors: nil is <<>>, an error is its text.                              *)
NoErr == <<>>
errMutatingRequiresObject   == <<"mutating policy requires object or oldObject">>
errUnsupportedPatchType     == <<"unsupported patch type">>
errValidationNonBoolean     == <<"validation expression returned non-boolean">>
errMatchConditionNonBoolean == <<"match condition returned non-boolean">>
errApplyConfigNotObject     == <<"apply configuration must return Object">>
errNoPolicy                 == <<"no policy provided">>

---------------------------------------------------------------------------
(* CEL.  The values an expression can yield.                               *)
CelBool(b)   == [kind |-> "bool", b |-> b]
CelString(s) == [kind |-> "string", s |-> s]
CelInt       == [kind |-> "int"]
CelList(ops) == [kind |-> "list", ops |-> ops]
CelObject(o) == [kind |-> "object", obj |-> o]

(* The CEL variable bag maps a variable name to what it is bound to: an    *)
(* object variable is bound to the mapping of an object in memory (by      *)
(* reference, 0 for null).                                                 *)
Bound(ref) == [ref |-> ref]

(* The key of the decision table: the five components joined by "/".  A   *)
(* string is the sequence of its characters.                               *)
AuthorizerKey(group, resource, subresource, namespace, verb) ==
    group \o <<"/">> \o resource \o <<"/">> \o subresource \o <<"/">> \o namespace
          \o <<"/">> \o verb

(* MockAuthorizer.Add: the decision of the config, under the key of its    *)
(* tuple, replacing what was there.                                        *)
Add(decisions, c) ==
    LET key == AuthorizerKey(c.Group, c.Resource, c.Subresource, c.Namespace, c.Verb)
        decision == IF c.Decision = "allow" THEN "DecisionAllow" ELSE "DecisionDeny"
    IN  [k \in (DOMAIN decisions) \cup {key} |-> IF k = key THEN decision ELSE decisions[k]]

(* NewMockAuthorizerFromConfig: the table of the configured decisions.     *)
NewMockAuthorizerFromConfig(configs) ==
    LET RECURSIVE AddAll(_, _)
        AddAll(i, decisions) ==
            IF i > Len(configs) THEN decisions ELSE AddAll(i + 1, Add(decisions, configs[i]))
    IN  [isNil |-> FALSE, decisions |-> AddAll(1, <<>>)]

(* MockAuthorizer.Authorize: the decision under the key of the attributes. *)
Authorize(m, attrs) ==
    LET key == AuthorizerKey(attrs.APIGroup, attrs.Resource, attrs.Subresource,
                             attrs.Namespace, attrs.Verb)
    IN  IF key \in DOMAIN m.decisions
        THEN [decision |-> m.decisions[key], reason |-> "mock decision", err |-> NoErr]
        ELSE [decision |-> "DecisionNoOpinion", reason |-> "no opinion", err |-> NoErr]

(* The expression that asks the authorizer whether "get" on the resource   *)
(* "a" of the core group is allowed in the namespace "d".                  *)
AuthorizerCheck == "authorizer.group('').resource('a').namespace('d').check('get').allowed()"

(* env.Compile / env.Program / prg.Eval on the model's expressions.        *)
(* ok = FALSE is a compilation or runtime error.                           *)
CelEval(expression, bag, h) ==
    CASE expression = "true"  -> [ok |-> TRUE, val |-> CelBool(TRUE)]
      [] expression = "false" -> [ok |-> TRUE, val |-> CelBool(FALSE)]
      [] expression = "1"     -> [ok |-> TRUE, val |-> CelInt]
      [] expression = "'x'"   -> [ok |-> TRUE, val |-> CelString(<<"x">>)]
      [] expression = "'y'"   -> [ok |-> TRUE, val |-> CelString(<<"y">>)]
      [] expression = "''"    -> [ok |-> TRUE, val |-> CelString(<<>>)]
      [] expression = "' '"   -> [ok |-> TRUE, val |-> CelString(<<" ">>)]
      [] expression = "has(object.b)" ->
            IF bag["object"].ref = 0
            THEN [ok |-> FALSE, err |-> <<"evaluate: ", "no such key: b">>]
            ELSE [ok |-> TRUE, val |-> CelBool("b" \in DOMAIN h[bag["object"].ref].m)]
      [] expression = AuthorizerCheck ->
            IF "authorizer" \notin DOMAIN bag
            THEN [ok |-> FALSE, err |-> <<"evaluate: ", "no such attribute(s): authorizer">>]
            ELSE [ok |-> TRUE,
                  val |-> CelBool(Authorize(bag["authorizer"].authorizer,
                                            [APIGroup |-> <<>>, Resource |-> <<"a">>,
                                             Subresource |-> <<>>, Namespace |-> <<"d">>,
                                             Verb |-> <<"get">>]).decision = "DecisionAllow")]
      [] expression = "[]" -> [ok |-> TRUE, val |-> CelList(<<>>)]
      [] expression = "[1]" -> [ok |-> TRUE, val |-> CelList(<<CelInt>>)]
      [] expression = "[JSONPatch{op: 'add', path: '/b', value: 'p'}]" ->
            [ok |-> TRUE, val |-> CelList(<<[op |-> "add", path |-> <<"b">>, value |-> S("p")]>>)]
      [] expression = "[JSONPatch{op: 'replace', path: '/a', value: 'q'}]" ->
            [ok |-> TRUE, val |-> CelList(<<[op |-> "replace", path |-> <<"a">>, value |-> S("q")]>>)]
      [] expression = "[JSONPatch{op: 'remove', path: '/b'}]" ->
            [ok |-> TRUE, val |-> CelList(<<[op |-> "remove", path |-> <<"b">>]>>)]
      [] expression = "[JSONPatch{op: 'add', path: '/c', value: object.a}]" ->
            IF bag["object"].ref = 0 \/ "a" \notin DOMAIN h[bag["object"].ref].m
            THEN [ok |-> FALSE, err |-> <<"evaluate: ", "no such key: a">>]
            ELSE [ok |-> TRUE,
                  val |-> CelList(<<[op |-> "add", path |-> <<"c">>,
                                     value |-> h[bag["object"].ref].m["a"]]>>)]
      [] expression = "Object{b: 'c'}" ->
            [ok |-> TRUE, val |-> CelObject(M([k \in {"b"} |-> S("c")]))]
      [] expression = "Object{a: Object{n: 'c'}}" ->
            [ok |-> TRUE, val |-> CelObject(M([k \in {"a"} |-> M([j \in {"n"} |-> S("c")])]))]
      [] OTHER -> [ok |-> FALSE, err |-> <<"compile expression: ", expression>>]

(* evaluateExpressionRaw: the raw CEL value, or the error.                 *)
evaluateExpressionRaw(expression, bag, h) == CelEval(expression, bag, h)

(* evaluateExpression: the value unwrapped by Value().                     *)
evaluateExpression(expression, bag, h) == evaluateExpressionRaw(expression, bag, h)

(* One entry of the evaluation trace: the expression evaluated, for which  *)
(* stage, and what came of it: "error", "true", "false" or the kind of the *)
(* value.                                                                  *)
Evaluated(stage, index, expression, r) ==
    [stage |-> stage, index |-> index, expression |-> expression,
     outcome |-> IF ~r.ok THEN "error"
                 ELSE IF r.val.kind = "bool" THEN (IF r.val.b THEN "true" ELSE "false")
                 ELSE r.val.kind]

---------------------------------------------------------------------------
(* Bindings, selectors and the other inputs that may be nil.               *)
Nil == [isNil |-> TRUE]
LabelSelector(matchLabels, valid) ==
    [isNil |-> FALSE, MatchLabels |-> matchLabels, valid |-> valid]
MatchResources(selector) == [isNil |-> FALSE, NamespaceSelector |-> selector]
Binding(matchResources, actions) ==
    [isNil |-> FALSE, MatchResources |-> matchResources, ValidationActions |-> actions]

(* GetLabels: metadata.labels of an object when it is a mapping of strings, *)
(* no labels otherwise.                                                     *)
GetLabels(obj) ==
    IF /\ "metadata" \in DOMAIN obj.m
       /\ IsMap(obj.m["metadata"])
       /\ "labels" \in DOMAIN obj.m["metadata"].m
       /\ IsMap(obj.m["metadata"].m["labels"])
       /\ \A k \in DOMAIN obj.m["metadata"].m["labels"].m :
              ~IsMap(obj.m["metadata"].m["labels"].m[k])
    THEN [k \in DOMAIN obj.m["metadata"].m["labels"].m |->
              obj.m["metadata"].m["labels"].m[k].s]
    ELSE <<>>

(* labels.Selector.Matches for a selector made of matchLabels.             *)
SelectorMatches(matchLabels, labels) ==
    \A k \in DOMAIN matchLabels : k \in DOMAIN labels /\ labels[k] = matchLabels[k]

(* A gate that lets no policy with a selector apply when the namespace     *)
(* object is not given.                                                    *)
matchesNamespaceSelector_NeedsNamespace(binding, namespaceObj, h) ==
    IF \/ binding.isNil
       \/ binding.MatchResources.isNil
       \/ binding.MatchResources.NamespaceSelector.isNil
    THEN [matched |-> TRUE, err |-> NoErr]
    ELSE LET selector == binding.MatchResources.NamespaceSelector IN
         IF ~selector.valid
         THEN [matched |-> FALSE, err |-> <<"parse namespace selector: ", "invalid">>]
         ELSE IF DOMAIN selector.MatchLabels = {}
         THEN [matched |-> TRUE, err |-> NoErr]
         ELSE IF namespaceObj = 0
         THEN [matched |-> FALSE, err |-> NoErr]
         ELSE [matched |-> SelectorMatches(selector.MatchLabels, GetLabels(h[namespaceObj])),
               err |-> NoErr]

(* matchesNamespaceSelector: does the binding let the policy apply?        *)
matchesNamespaceSelector(binding, namespaceObj, h) ==
    IF \/ binding.isNil
       \/ binding.MatchResources.isNil
       \/ binding.MatchResources.NamespaceSelector.isNil
    THEN [matched |-> TRUE, err |-> NoErr]
    ELSE LET selector == binding.MatchResources.NamespaceSelector IN
         IF ~selector.valid
         THEN [matched |-> FALSE, err |-> <<"parse namespace selector: ", "invalid">>]
         ELSE IF DOMAIN selector.MatchLabels = {}
         THEN [matched |-> TRUE, err |-> NoErr]
         ELSE IF namespaceObj = 0
         THEN [matched |-> TRUE, err |-> NoErr]
         ELSE [matched |-> SelectorMatches(selector.MatchLabels, GetLabels(h[namespaceObj])),
               err |-> NoErr]

(* matchesNamespaceSelectorV1Beta1: the same gate for a mutating binding.  *)
matchesNamespaceSelectorV1Beta1(binding, namespaceObj, h) ==
    IF \/ binding.isNil
       \/ binding.MatchResources.isNil
       \/ binding.MatchResources.NamespaceSelector.isNil
    THEN [matched |-> TRUE, err |-> NoErr]
    ELSE LET selector == binding.MatchResources.NamespaceSelector IN
         IF ~selector.valid
         THEN [matched |-> FALSE, err |-> <<"parse namespace selector: ", "invalid">>]
         ELSE IF DOMAIN selector.MatchLabels = {}
         THEN [matched |-> TRUE, err |-> NoErr]
         ELSE IF namespaceObj = 0
         THEN [matched |-> TRUE, err |-> NoErr]
         ELSE [matched |-> SelectorMatches(selector.MatchLabels, GetLabels(h[namespaceObj])),
               err |-> NoErr]

(* convertAdmissionRequest: the request as the mapping CEL sees; a field   *)
(* is present when it is not empty.                                        *)
RequestFields == {"uid", "subResource", "name", "namespace", "operation"}

(* A list of strings as a JSON value.                                      *)
L(l) == [l |-> l]

(* The userInfo of the request: there when the request has a username or   *)
(* groups, with the fields that are not empty.                             *)
convertRequestUserInfo(userInfo) ==
    LET withName == IF userInfo.Username # ""
                    THEN Put(<<>>, "username", S(userInfo.Username))
                    ELSE <<>>
        withGroups == IF Len(userInfo.Groups) > 0
                      THEN Put(withName, "groups", L(userInfo.Groups))
                      ELSE withName
        withUID == IF userInfo.UID # "" THEN Put(withGroups, "uid", S(userInfo.UID))
                   ELSE withGroups
    IN  IF DOMAIN userInfo.Extra # {}
        THEN M(Put(withUID, "extra", M([k \in DOMAIN userInfo.Extra |-> L(userInfo.Extra[k])])))
        ELSE M(withUID)

(* The requests of the model carry no options and no dryRun.               *)
convertAdmissionRequest(req) ==
    IF req.isNil
    THEN EmptyMap
    ELSE LET simple == [f \in {g \in RequestFields : req[g] # ""} |-> S(req[f])]
             withKind ==
                 IF req.Kind.Kind # ""
                 THEN Put(simple, "kind",
                          M([f \in {"group", "version", "kind"} |->
                                CASE f = "group" -> S(req.Kind.Group)
                                  [] f = "version" -> S(req.Kind.Version)
                                  [] f = "kind" -> S(req.Kind.Kind)]))
                 ELSE simple
             withResource ==
                 IF req.Resource.Resource # ""
                 THEN Put(withKind, "resource",
                          M([f \in {"group", "version", "resource"} |->
                                CASE f = "group" -> S(req.Resource.Group)
                                  [] f = "version" -> S(req.Resource.Version)
                                  [] f = "resource" -> S(req.Resource.Resource)]))
                 ELSE withKind
         IN  IF req.UserInfo.Username # "" \/ Len(req.UserInfo.Groups) > 0
             THEN M(Put(withResource, "userInfo", convertRequestUserInfo(req.UserInfo)))
             ELSE M(withResource)

(* A setupValidatingVars that binds the authorizer whether or not there is *)
(* a user-info.                                                            *)
setupValidatingVars_AuthorizerAlone(requestMap, object, oldObject, params, namespaceObj, authorizer, userInfo) ==
    LET base == [n \in {"request", "object", "params"} |->
                    CASE n = "request" -> requestMap
                      [] n = "object" ->
                            IF object # 0 THEN Bound(object)
                            ELSE IF oldObject # 0 THEN Bound(oldObject)
                            ELSE Bound(0)
                      [] n = "params" -> Bound(params)]
        withAuth == IF ~authorizer.isNil
                    THEN Put(base, "authorizer", [authorizer |-> authorizer, userInfo |-> userInfo])
                    ELSE base
        withOld == IF oldObject # 0 THEN Put(withAuth, "oldObject", Bound(oldObject)) ELSE withAuth
    IN  IF namespaceObj # 0 THEN Put(withOld, "namespaceObject", Bound(namespaceObj)) ELSE withOld

(* setupValidatingVars: the variable bag of a validating evaluation.       *)
setupValidatingVars(requestMap, object, oldObject, params, namespaceObj, authorizer, userInfo) ==
    LET base == [n \in {"request", "object", "params"} |->
                    CASE n = "request" -> requestMap
                      [] n = "object" ->
                            IF object # 0 THEN Bound(object)
                            ELSE IF oldObject # 0 THEN Bound(oldObject)
                            ELSE Bound(0)
                      [] n = "params" -> Bound(params)]
        withAuth == IF ~authorizer.isNil /\ ~userInfo.isNil
                    THEN Put(base, "authorizer", [authorizer |-> authorizer, userInfo |-> userInfo])
                    ELSE base
        withOld == IF oldObject # 0 THEN Put(withAuth, "oldObject", Bound(oldObject)) ELSE withAuth
    IN  IF namespaceObj # 0 THEN Put(withOld, "namespaceObject", Bound(namespaceObj)) ELSE withOld

(* evaluateMatchConditions, from condition i on.                           *)
RECURSIVE evaluateMatchConditionsFrom(_, _, _, _)
(* A loop that goes on to the next condition after one that is false.      *)
evaluateMatchConditionsFrom_Continue(conditions, bag, h, i) ==
    IF i > Len(conditions)
    THEN [matched |-> TRUE, err |-> NoErr, trace |-> <<>>]
    ELSE LET r == evaluateExpression(conditions[i].Expression, bag, h)
             t == <<Evaluated("matchCondition", i, conditions[i].Expression, r)>>
         IN  IF ~r.ok
             THEN [matched |-> FALSE,
                   err |-> <<"evaluate match condition ", conditions[i].Name, ": ">> \o r.err,
                   trace |-> t]
             ELSE IF r.val.kind # "bool"
             THEN [matched |-> FALSE,
                   err |-> errMatchConditionNonBoolean \o <<": ", conditions[i].Name>>,
                   trace |-> t]
             ELSE LET rest == evaluateMatchConditionsFrom(conditions, bag, h, i + 1)
                  IN  [rest EXCEPT !.trace = t \o @]

evaluateMatchConditionsFrom(conditions, bag, h, i) ==
    LET Decide(r, t) ==
            IF ~r.ok
            THEN [matched |-> FALSE,
                  err |-> <<"evaluate match condition ", conditions[i].Name, ": ">> \o r.err,
                  trace |-> t]
            ELSE IF r.val.kind # "bool"
            THEN [matched |-> FALSE,
                  err |-> errMatchConditionNonBoolean \o <<": ", conditions[i].Name>>,
                  trace |-> t]
            ELSE IF ~r.val.b
            THEN [matched |-> FALSE, err |-> NoErr, trace |-> t]
            ELSE [evaluateMatchConditionsFrom(conditions, bag, h, i + 1) EXCEPT !.trace = t \o @]
        Record(r) == Decide(r, <<Evaluated("matchCondition", i, conditions[i].Expression, r)>>)
    IN  IF i > Len(conditions)
        THEN [matched |-> TRUE, err |-> NoErr, trace |-> <<>>]
        ELSE Record(evaluateExpression(conditions[i].Expression, bag, h))

evaluateMatchConditions(conditions, bag, h) ==
    evaluateMatchConditionsFrom(conditions, bag, h, 1)

(* evaluateMatchConditionsV1Beta1: the same loop for a mutating policy.    *)
RECURSIVE evaluateMatchConditionsV1Beta1From(_, _, _, _)
evaluateMatchConditionsV1Beta1From(conditions, bag, h, i) ==
    LET Decide(r, t) ==
            IF ~r.ok
            THEN [matched |-> FALSE,
                  err |-> <<"evaluate match condition ", conditions[i].Name, ": ">> \o r.err,
                  trace |-> t]
            ELSE IF r.val.kind # "bool"
            THEN [matched |-> FALSE,
                  err |-> errMatchConditionNonBoolean \o <<": ", conditions[i].Name>>,
                  trace |-> t]
            ELSE IF ~r.val.b
            THEN [matched |-> FALSE, err |-> NoErr, trace |-> t]
            ELSE [evaluateMatchConditionsV1Beta1From(conditions, bag, h, i + 1)
                      EXCEPT !.trace = t \o @]
        Record(r) == Decide(r, <<Evaluated("matchCondition", i, conditions[i].Expression, r)>>)
    IN  IF i > Len(conditions)
        THEN [matched |-> TRUE, err |-> NoErr, trace |-> <<>>]
        ELSE Record(evaluateExpression(conditions[i].Expression, bag, h))

evaluateMatchConditionsV1Beta1(conditions, bag, h) ==
    evaluateMatchConditionsV1Beta1From(conditions, bag, h, 1)

(* evaluateAuditAnnotations, from annotation i on, acc the map so far.     *)
RECURSIVE evaluateAuditAnnotationsFrom(_, _, _, _, _)
(* A loop that records every string value, the empty one too.              *)
evaluateAuditAnnotationsFrom_KeepEmpty(annotations, bag, h, i, acc) ==
    IF i > Len(annotations)
    THEN [err |-> NoErr, auditAnnotations |-> acc, trace |-> <<>>]
    ELSE LET r == evaluateExpression(annotations[i].ValueExpression, bag, h)
             t == <<Evaluated("auditAnnotation", i, annotations[i].ValueExpression, r)>>
         IN  IF ~r.ok
             THEN [err |-> <<"evaluate audit annotation ", annotations[i].Key, ": ">> \o r.err,
                   trace |-> t]
             ELSE LET next == IF r.val.kind = "string"
                              THEN Put(acc, annotations[i].Key, r.val.s)
                              ELSE acc
                      rest == evaluateAuditAnnotationsFrom(annotations, bag, h, i + 1, next)
                  IN  [rest EXCEPT !.trace = t \o @]

evaluateAuditAnnotationsFrom(annotations, bag, h, i, acc) ==
    LET Decide(r, t) ==
            IF ~r.ok
            THEN [err |-> <<"evaluate audit annotation ", annotations[i].Key, ": ">> \o r.err,
                  trace |-> t]
            ELSE [evaluateAuditAnnotationsFrom(annotations, bag, h, i + 1,
                      IF r.val.kind = "string" /\ r.val.s # <<>>
                      THEN Put(acc, annotations[i].Key, r.val.s)
                      ELSE acc)
                  EXCEPT !.trace = t \o @]
        Record(r) ==
            Decide(r, <<Evaluated("auditAnnotation", i, annotations[i].ValueExpression, r)>>)
    IN  IF i > Len(annotations)
        THEN [err |-> NoErr, auditAnnotations |-> acc, trace |-> <<>>]
        ELSE Record(evaluateExpression(annotations[i].ValueExpression, bag, h))

(* An evaluation of the audit annotations that goes on to the validations  *)
(* whatever the annotations returned.                                      *)
evaluateAuditAnnotations_IgnoreErrors(annotations, bag, h) ==
    LET Ignore(r) ==
            IF r.err # NoErr
            THEN [err |-> NoErr, auditAnnotations |-> <<>>, trace |-> r.trace]
            ELSE r
    IN  Ignore(evaluateAuditAnnotationsFrom(annotations, bag, h, 1, <<>>))

evaluateAuditAnnotations(annotations, bag, h) ==
    evaluateAuditAnnotationsFrom(annotations, bag, h, 1, <<>>)

(* EvaluationResult.  The zero values: Message "" is <<>>, Warnings nil is *)
(* <<>>, PatchedObject nil is 0, AuditAnnotations nil is the empty map.    *)
EvaluationResult(allowed, message, warnings, patchedObject, auditAnnotations) ==
    [Allowed |-> allowed, Message |-> message, Warnings |-> warnings,
     PatchedObject |-> patchedObject, AuditAnnotations |-> auditAnnotations]

(* A getValidationAction that reads the last action instead of the first.  *)
getValidationAction_Last(binding) ==
    IF binding.isNil
    THEN ""
    ELSE IF Len(binding.ValidationActions) = 0
    THEN ""
    ELSE binding.ValidationActions[Len(binding.ValidationActions)]

(* getValidationAction: the first validation action of the binding.        *)
getValidationAction(binding) ==
    IF binding.isNil
    THEN ""
    ELSE IF Len(binding.ValidationActions) = 0
    THEN ""
    ELSE binding.ValidationActions[1]

(* A handleValidationFailure that takes any non-empty string of the        *)
(* messageExpression, blank or not.                                        *)
handleValidationFailure_NoTrim(validation, binding, auditAnnotations, bag, h) ==
    LET given == validation.MessageExpression # ""
        msgResult == evaluateExpression(validation.MessageExpression, bag, h)
        t == IF given
             THEN <<Evaluated("messageExpression", 1, validation.MessageExpression, msgResult)>>
             ELSE <<>>
        chosen == IF /\ given
                     /\ msgResult.val.kind = "string"
                     /\ msgResult.val.s # <<>>
                  THEN msgResult.val.s
                  ELSE validation.Message
        message == IF chosen = <<>>
                   THEN <<"validation failed: ", validation.Expression>>
                   ELSE chosen
        action == getValidationAction(binding)
    IN  IF given /\ ~msgResult.ok
        THEN [status |-> "error",
              err |-> <<"evaluate messageExpression ", validation.MessageExpression, ": ">>
                          \o msgResult.err,
              trace |-> t]
        ELSE [status |-> "result",
              result |->
                  CASE action = "Warn" ->
                          EvaluationResult(TRUE, <<>>, <<message>>, 0, auditAnnotations)
                    [] action = "Audit" ->
                          EvaluationResult(TRUE, <<>>, <<>>, 0, auditAnnotations)
                    [] OTHER ->
                          EvaluationResult(FALSE, message, <<>>, 0, auditAnnotations),
              trace |-> t]

(* A handleValidationFailure with no default message: the message of the   *)
(* result may be empty.                                                    *)
handleValidationFailure_NoDefault(validation, binding, auditAnnotations, bag, h) ==
    LET given == validation.MessageExpression # ""
        Route(action, message, t) ==
            [status |-> "result",
             result |->
                 CASE action = "Warn" ->
                         EvaluationResult(TRUE, <<>>, <<message>>, 0, auditAnnotations)
                   [] action = "Audit" ->
                         EvaluationResult(TRUE, <<>>, <<>>, 0, auditAnnotations)
                   [] OTHER ->
                         EvaluationResult(FALSE, message, <<>>, 0, auditAnnotations),
             trace |-> t]
        Decide(msgResult, t) ==
            IF ~msgResult.ok
            THEN [status |-> "error",
                  err |-> <<"evaluate messageExpression ", validation.MessageExpression, ": ">>
                              \o msgResult.err,
                  trace |-> t]
            ELSE Route(getValidationAction(binding),
                       IF /\ msgResult.val.kind = "string"
                          /\ ~TrimSpaceIsEmpty(msgResult.val.s)
                       THEN msgResult.val.s
                       ELSE validation.Message,
                       t)
        Record(msgResult) ==
            Decide(msgResult,
                   <<Evaluated("messageExpression", 1, validation.MessageExpression, msgResult)>>)
    IN  IF given
        THEN Record(evaluateExpression(validation.MessageExpression, bag, h))
        ELSE Route(getValidationAction(binding), validation.Message, <<>>)

(* handleValidationFailure: the message of the failing validation, routed  *)
(* by the binding's action.                                                *)
handleValidationFailure(validation, binding, auditAnnotations, bag, h) ==
    LET given == validation.MessageExpression # ""
        Route(action, message, t) ==
            [status |-> "result",
             result |->
                 CASE action = "Warn" ->
                         EvaluationResult(TRUE, <<>>, <<message>>, 0, auditAnnotations)
                   [] action = "Audit" ->
                         EvaluationResult(TRUE, <<>>, <<>>, 0, auditAnnotations)
                   [] OTHER ->
                         EvaluationResult(FALSE, message, <<>>, 0, auditAnnotations),
             trace |-> t]
        Default(chosen, t) ==
            Route(getValidationAction(binding),
                  IF chosen = <<>>
                  THEN <<"validation failed: ", validation.Expression>>
                  ELSE chosen,
                  t)
        Decide(msgResult, t) ==
            IF ~msgResult.ok
            THEN [status |-> "error",
                  err |-> <<"evaluate messageExpression ", validation.MessageExpression, ": ">>
                              \o msgResult.err,
                  trace |-> t]
            ELSE Default(IF /\ msgResult.val.kind = "string"
                            /\ ~TrimSpaceIsEmpty(msgResult.val.s)
                         THEN msgResult.val.s
                         ELSE validation.Message,
                         t)
        Record(msgResult) ==
            Decide(msgResult,
                   <<Evaluated("messageExpression", 1, validation.MessageExpression, msgResult)>>)
    IN  IF given
        THEN Record(evaluateExpression(validation.MessageExpression, bag, h))
        ELSE Default(validation.Message, <<>>)

(* The validation loop of EvaluateValidating, from validation i on.        *)
RECURSIVE evaluateValidationsFrom(_, _, _, _, _, _)
(* A loop that evaluates the validations left after the first failure      *)
(* before it reports that failure.                                         *)
evaluateValidationsFrom_NoStop(validations, binding, auditAnnotations, bag, h, i) ==
    IF i > Len(validations)
    THEN [status |-> "result",
          result |-> EvaluationResult(TRUE, <<>>, <<>>, 0, auditAnnotations),
          trace |-> <<>>]
    ELSE LET r == evaluateExpression(validations[i].Expression, bag, h)
             t == <<Evaluated("validation", i, validations[i].Expression, r)>>
         IN  IF ~r.ok
             THEN [status |-> "error",
                   err |-> <<"evaluate validation expression ", validations[i].Expression, ": ">>
                               \o r.err,
                   trace |-> t]
             ELSE IF r.val.kind # "bool"
             THEN [status |-> "error",
                   err |-> errValidationNonBoolean \o <<": ", validations[i].Expression>>,
                   trace |-> t]
             ELSE LET later == evaluateValidationsFrom(validations, binding,
                                                       auditAnnotations, bag, h, i + 1)
                      failure == handleValidationFailure(validations[i], binding,
                                                         auditAnnotations, bag, h)
                  IN  IF r.val.b \/ later.status = "error"
                      THEN [later EXCEPT !.trace = t \o @]
                      ELSE [failure EXCEPT !.trace = t \o later.trace \o @]

evaluateValidationsFrom(validations, binding, auditAnnotations, bag, h, i) ==
    LET Prepend(t, rest) == [rest EXCEPT !.trace = t \o @]
        Decide(r, t) ==
            IF ~r.ok
            THEN [status |-> "error",
                  err |-> <<"evaluate validation expression ", validations[i].Expression, ": ">>
                              \o r.err,
                  trace |-> t]
            ELSE IF r.val.kind # "bool"
            THEN [status |-> "error",
                  err |-> errValidationNonBoolean \o <<": ", validations[i].Expression>>,
                  trace |-> t]
            ELSE IF ~r.val.b
            THEN Prepend(t, handleValidationFailure(validations[i], binding,
                                                    auditAnnotations, bag, h))
            ELSE Prepend(t, evaluateValidationsFrom(validations, binding,
                                                    auditAnnotations, bag, h, i + 1))
        Record(r) == Decide(r, <<Evaluated("validation", i, validations[i].Expression, r)>>)
    IN  IF i > Len(validations)
        THEN [status |-> "result",
              result |-> EvaluationResult(TRUE, <<>>, <<>>, 0, auditAnnotations),
              trace |-> <<>>]
        ELSE Record(evaluateExpression(validations[i].Expression, bag, h))

(* EvaluateValidating.                                                     *)
EvaluateValidating(policy, binding, request, object, oldObject, params, namespaceObj, authorizer, userInfo, h) ==
    LET Validate(trace, rest) ==
            IF rest.status = "error"
            THEN [status |-> "error", err |-> rest.err, trace |-> trace \o rest.trace,
                  heap |-> h]
            ELSE [status |-> "result", result |-> rest.result,
                  trace |-> trace \o rest.trace, heap |-> h]
        Annotate(bag, trace, audit) ==
            IF audit.err # NoErr
            THEN [status |-> "error", err |-> audit.err, trace |-> trace \o audit.trace,
                  heap |-> h]
            ELSE Validate(trace \o audit.trace,
                          evaluateValidationsFrom(policy.Validations, binding,
                                                  audit.auditAnnotations, bag, h, 1))
        Match(bag, match) ==
            IF match.err # NoErr
            THEN [status |-> "error", err |-> <<"evaluate match conditions: ">> \o match.err,
                  trace |-> match.trace, heap |-> h]
            ELSE IF ~match.matched
            THEN [status |-> "result", result |-> EvaluationResult(TRUE, <<>>, <<>>, 0, <<>>),
                  trace |-> match.trace, heap |-> h]
            ELSE Annotate(bag, match.trace,
                          evaluateAuditAnnotations(policy.AuditAnnotations, bag, h))
        Setup(bag) == Match(bag, evaluateMatchConditions(policy.MatchConditions, bag, h))
        Gate(gate) ==
            IF gate.err # NoErr
            THEN [status |-> "error", err |-> <<"evaluate namespace selector: ">> \o gate.err,
                  trace |-> <<>>, heap |-> h]
            ELSE IF ~gate.matched
            THEN [status |-> "result", result |-> EvaluationResult(TRUE, <<>>, <<>>, 0, <<>>),
                  trace |-> <<>>, heap |-> h]
            ELSE Setup(setupValidatingVars(convertAdmissionRequest(request), object, oldObject,
                                           params, namespaceObj, authorizer, userInfo))
    IN  Gate(matchesNamespaceSelector(binding, namespaceObj, h))

---------------------------------------------------------------------------
(* The mutation engine.                                                    *)

(* getPrimaryObject: object, or oldObject when there is no object.         *)
getPrimaryObject(object, oldObject) == IF object # 0 THEN object ELSE oldObject

(* prepareMutatingVars: the variable bag of a mutating evaluation.         *)
prepareMutatingVars(requestMap, primaryObject, oldObject, params, namespaceObj, authorizer, userInfo) ==
    LET base == [n \in {"request", "object", "params"} |->
                    CASE n = "request" -> requestMap
                      [] n = "object" -> Bound(primaryObject)
                      [] n = "params" -> Bound(params)]
        withAuth == IF ~authorizer.isNil /\ ~userInfo.isNil
                    THEN Put(base, "authorizer", [authorizer |-> authorizer, userInfo |-> userInfo])
                    ELSE base
        withOld == IF oldObject # 0 THEN Put(withAuth, "oldObject", Bound(oldObject)) ELSE withAuth
    IN  IF namespaceObj # 0 THEN Put(withOld, "namespaceObject", Bound(namespaceObj)) ELSE withOld

(* An evaluation of the mutation's expression with the variable object     *)
(* bound to the working object, which is the object created last.          *)
evaluateJSONPatchMutation_Reprojected(mutation, bag, h, i) ==
    LET Decide(r, t) ==
            IF ~r.ok
            THEN [err |-> <<"evaluate JSONPatch expression: ">> \o r.err, isNil |-> TRUE,
                  trace |-> t]
            ELSE [err |-> NoErr, isNil |-> FALSE, patch |-> r.val, trace |-> t]
        Record(r) == Decide(r, <<Evaluated("mutation", i, mutation.JSONPatch.Expression, r)>>)
    IN  IF mutation.JSONPatch.isNil
        THEN [err |-> NoErr, isNil |-> TRUE, trace |-> <<>>]
        ELSE Record(evaluateExpression(mutation.JSONPatch.Expression,
                                       [bag EXCEPT !["object"] = Bound(Len(h))], h))

(* evaluateJSONPatchMutation: the value of the mutation's expression; no   *)
(* patch when the mutation has no jsonPatch.                               *)
evaluateJSONPatchMutation(mutation, bag, h, i) ==
    LET Decide(r, t) ==
            IF ~r.ok
            THEN [err |-> <<"evaluate JSONPatch expression: ">> \o r.err, isNil |-> TRUE,
                  trace |-> t]
            ELSE [err |-> NoErr, isNil |-> FALSE, patch |-> r.val, trace |-> t]
        Record(r) == Decide(r, <<Evaluated("mutation", i, mutation.JSONPatch.Expression, r)>>)
    IN  IF mutation.JSONPatch.isNil
        THEN [err |-> NoErr, isNil |-> TRUE, trace |-> <<>>]
        ELSE Record(evaluateExpression(mutation.JSONPatch.Expression, bag, h))

(* evaluateApplyConfigurationMutation: the configuration as a plain        *)
(* mapping; no configuration when the mutation has no applyConfiguration.  *)
evaluateApplyConfigurationMutation(mutation, bag, h, i) ==
    LET Decide(r, t) ==
            IF ~r.ok
            THEN [err |-> <<"evaluate ApplyConfiguration expression: ">> \o r.err,
                  isNil |-> TRUE, trace |-> t]
            ELSE IF r.val.kind # "object"
            THEN [err |-> errApplyConfigNotObject \o <<": ", r.val.kind>>, isNil |-> TRUE,
                  trace |-> t]
            ELSE [err |-> NoErr, isNil |-> FALSE, config |-> r.val.obj, trace |-> t]
        Record(r) ==
            Decide(r, <<Evaluated("mutation", i, mutation.ApplyConfiguration.Expression, r)>>)
    IN  IF mutation.ApplyConfiguration.isNil
        THEN [err |-> NoErr, isNil |-> TRUE, trace |-> <<>>]
        ELSE Record(evaluateExpressionRaw(mutation.ApplyConfiguration.Expression, bag, h))

(* listerFromPatch: the elements of a patch value; a value that is no list *)
(* is skipped.                                                             *)
listerFromPatch(p) ==
    IF p.kind = "list"
    THEN [skip |-> FALSE, values |-> p.ops]
    ELSE [skip |-> TRUE, values |-> <<>>]

(* buildJSONPatchOperation: an RFC 6902 operation; its value goes through  *)
(* structpb and encoding/json.  An element that is no JSONPatch value does *)
(* not convert: an error.                                                  *)
buildJSONPatchOperation(value) ==
    IF "op" \notin DOMAIN value
    THEN [err |-> <<"convert patch element: ", "unsupported type conversion">>]
    ELSE IF "value" \in DOMAIN value
    THEN [err |-> NoErr,
          op |-> [op |-> value.op, path |-> value.path, value |-> JSONRoundTrip(value.value)]]
    ELSE [err |-> NoErr, op |-> [op |-> value.op, path |-> value.path]]

(* appendPatchOperations: the operations of one patch value, in order, or  *)
(* the error of the first element that does not convert.                   *)
appendPatchOperations(values, result) ==
    IF \E i \in 1..Len(values) : buildJSONPatchOperation(values[i]).err # NoErr
    THEN [err |-> buildJSONPatchOperation(
                      values[CHOOSE i \in 1..Len(values) :
                                 /\ buildJSONPatchOperation(values[i]).err # NoErr
                                 /\ \A j \in 1..(i - 1) :
                                        buildJSONPatchOperation(values[j]).err = NoErr]).err,
          result |-> result]
    ELSE [err |-> NoErr,
          result |-> result \o [i \in 1..Len(values) |-> buildJSONPatchOperation(values[i]).op]]

(* jsonpatch: one operation applied at path below the document v.          *)
RECURSIVE ApplyOperationAt(_, _, _)
ApplyOperationAt(v, path, operation) ==
    LET Inside(r) == IF r.ok THEN [ok |-> TRUE, val |-> M(Put(v.m, path[1], r.val))] ELSE r
    IN  IF ~IsMap(v)
        THEN [ok |-> FALSE]
        ELSE IF Len(path) = 1
        THEN CASE operation.op = "add" ->
                     [ok |-> TRUE, val |-> M(Put(v.m, path[1], operation.value))]
               [] operation.op = "replace" ->
                     IF path[1] \in DOMAIN v.m
                     THEN [ok |-> TRUE, val |-> M(Put(v.m, path[1], operation.value))]
                     ELSE [ok |-> FALSE]
               [] operation.op = "remove" ->
                     IF path[1] \in DOMAIN v.m
                     THEN [ok |-> TRUE, val |-> M(Del(v.m, path[1]))]
                     ELSE [ok |-> FALSE]
               [] OTHER -> [ok |-> FALSE]
        ELSE IF path[1] \notin DOMAIN v.m
        THEN [ok |-> FALSE]
        ELSE Inside(ApplyOperationAt(v.m[path[1]], Tail(path), operation))

(* jsonpatch.Patch.Apply: the operations one after the other.              *)
RECURSIVE PatchApply(_, _, _)
PatchApply(doc, operations, i) ==
    LET Then(r) == IF r.ok THEN PatchApply(r.val, operations, i + 1) ELSE r
    IN  IF i > Len(operations)
        THEN [ok |-> TRUE, val |-> doc]
        ELSE Then(ApplyOperationAt(doc, operations[i].path, operations[i]))

(* applyPatchOperations: marshal the object, apply the patch, unmarshal    *)
(* into a new object.  A nil object is dereferenced: the call panics.      *)
applyPatchOperations(result, object, h) ==
    LET Unmarshal(patched) ==
            IF ~patched.ok
            THEN [status |-> "error", err |-> <<"apply patch: ", "operation does not apply">>,
                  heap |-> h]
            ELSE [status |-> "ok", ref |-> Len(h) + 1, heap |-> Append(h, patched.val)]
    IN  IF object = 0
        THEN [status |-> "panic", heap |-> h]
        ELSE Unmarshal(PatchApply(JSONRoundTrip(h[object]), result, 1))

(* An applyJSONPatches that sends an empty patch through the marshalling   *)
(* of applyPatchOperations as well.                                        *)
applyJSONPatches_NoShortcut(patches, object, h) ==
    LET RECURSIVE collect(_, _)
        collect(i, result) ==
            LET Appended(a) == IF a.err # NoErr THEN a ELSE collect(i + 1, a.result)
            IN  IF i > Len(patches)
                THEN [err |-> NoErr, result |-> result]
                ELSE IF listerFromPatch(patches[i]).skip
                THEN collect(i + 1, result)
                ELSE Appended(appendPatchOperations(listerFromPatch(patches[i]).values, result))
        Apply(c) ==
            IF c.err # NoErr
            THEN [status |-> "error", err |-> c.err, heap |-> h]
            ELSE applyPatchOperations(c.result, object, h)
    IN  Apply(collect(1, <<>>))

(* applyJSONPatches: the operations of all patch values as one patch.      *)
applyJSONPatches(patches, object, h) ==
    LET RECURSIVE collect(_, _)
        collect(i, result) ==
            LET Appended(a) == IF a.err # NoErr THEN a ELSE collect(i + 1, a.result)
            IN  IF i > Len(patches)
                THEN [err |-> NoErr, result |-> result]
                ELSE IF listerFromPatch(patches[i]).skip
                THEN collect(i + 1, result)
                ELSE Appended(appendPatchOperations(listerFromPatch(patches[i]).values, result))
        Apply(c) ==
            IF c.err # NoErr
            THEN [status |-> "error", err |-> c.err, heap |-> h]
            ELSE IF Len(c.result) = 0
            THEN [status |-> "ok"] @@ DeepCopy(h, object)
            ELSE applyPatchOperations(c.result, object, h)
    IN  IF Len(patches) = 0
        THEN [status |-> "ok"] @@ DeepCopy(h, object)
        ELSE Apply(collect(1, <<>>))

(* A mergeObjects that overwrites every key of src, mappings too.          *)
mergeObjects_Shallow(dst, src) ==
    [key \in (DOMAIN dst) \cup (DOMAIN src) |->
        IF key \notin DOMAIN src THEN dst[key] ELSE src[key]]

(* mergeObjects: src merged into dst; the new content of dst.              *)
RECURSIVE mergeObjects(_, _)
mergeObjects(dst, src) ==
    [key \in (DOMAIN dst) \cup (DOMAIN src) |->
        IF key \notin DOMAIN src
        THEN dst[key]
        ELSE IF key \in DOMAIN dst /\ IsMap(dst[key]) /\ IsMap(src[key])
        THEN M(mergeObjects(dst[key].m, src[key].m))
        ELSE src[key]]

(* applyApplyConfigurations: the configurations merged into a copy of the  *)
(* object.  A nil object is dereferenced: the call panics.                 *)
applyApplyConfigurations(configs, object, h) ==
    LET RECURSIVE merge(_, _)
        merge(i, m) ==
            IF i > Len(configs) THEN m ELSE merge(i + 1, mergeObjects(m, configs[i].m))
        Merge(copy) ==
            IF copy.ref = 0
            THEN [status |-> "panic", heap |-> h]
            ELSE [status |-> "ok", ref |-> copy.ref,
                  heap |-> [copy.heap EXCEPT ![copy.ref] = M(merge(1, copy.heap[copy.ref].m))]]
    IN  IF Len(configs) = 0
        THEN [status |-> "ok", ref |-> object, heap |-> h]
        ELSE Merge(DeepCopy(h, object))

(* The loop of applyMutations from mutation i on; patchedObject is the     *)
(* working object.                                                         *)
RECURSIVE applyMutationsFrom(_, _, _, _, _)
applyMutationsFrom(mutations, patchedObject, bag, h, i) ==
    LET Prepend(t, rest) == [rest EXCEPT !.trace = t \o @]
        Applied(a, t) ==
            IF a.status = "ok"
            THEN Prepend(t, applyMutationsFrom(mutations, a.ref, bag, a.heap, i + 1))
            ELSE a @@ [trace |-> t]
        Unchanged(t) == Prepend(t, applyMutationsFrom(mutations, patchedObject, bag, h, i + 1))
        Patch(e) ==
            IF e.err # NoErr
            THEN [status |-> "error", err |-> e.err, heap |-> h, trace |-> e.trace]
            ELSE IF e.isNil
            THEN Unchanged(e.trace)
            ELSE Applied(applyJSONPatches(<<e.patch>>, patchedObject, h), e.trace)
        Configure(e) ==
            IF e.err # NoErr
            THEN [status |-> "error", err |-> e.err, heap |-> h, trace |-> e.trace]
            ELSE IF e.isNil
            THEN Unchanged(e.trace)
            ELSE Applied(applyApplyConfigurations(<<e.config>>, patchedObject, h), e.trace)
    IN  IF i > Len(mutations)
        THEN [status |-> "ok", ref |-> patchedObject, heap |-> h, trace |-> <<>>]
        ELSE CASE mutations[i].PatchType = "JSONPatch" ->
                      Patch(evaluateJSONPatchMutation(mutations[i], bag, h, i))
               [] mutations[i].PatchType = "ApplyConfiguration" ->
                      Configure(evaluateApplyConfigurationMutation(mutations[i], bag, h, i))
               [] OTHER ->
                      [status |-> "error",
                       err |-> errUnsupportedPatchType \o <<": ", mutations[i].PatchType>>,
                       heap |-> h, trace |-> <<>>]

(* An applyMutations that starts from the object itself.                   *)
applyMutations_NoCopy(mutations, object, bag, h) ==
    applyMutationsFrom(mutations, object, bag, h, 1)

(* An applyMutations that goes through the mutations from the last to the  *)
(* first.                                                                  *)
applyMutations_Reversed(mutations, object, bag, h) ==
    LET Loop(copy) ==
            applyMutationsFrom([i \in 1..Len(mutations) |-> mutations[Len(mutations) + 1 - i]],
                               copy.ref, bag, copy.heap, 1)
    IN  Loop(DeepCopy(h, object))

(* applyMutations: the mutations, in order, on a copy of the object.       *)
applyMutations(mutations, object, bag, h) ==
    LET Loop(copy) == applyMutationsFrom(mutations, copy.ref, bag, copy.heap, 1)
    IN  Loop(DeepCopy(h, object))

(* EvaluateMutating.                                                       *)
EvaluateMutating(policy, binding, request, object, oldObject, params, namespaceObj, authorizer, userInfo, h) ==
    LET Mutate(trace, applied) ==
            IF applied.status = "panic"
            THEN [status |-> "panic", trace |-> trace \o applied.trace, heap |-> applied.heap]
            ELSE IF applied.status = "error"
            THEN [status |-> "error", err |-> applied.err,
                  trace |-> trace \o applied.trace, heap |-> applied.heap]
            ELSE [status |-> "result",
                  result |-> EvaluationResult(TRUE, <<>>, <<>>, applied.ref, <<>>),
                  trace |-> trace \o applied.trace, heap |-> applied.heap]
        Match(bag, match) ==
            IF match.err # NoErr
            THEN [status |-> "error", err |-> <<"evaluate match conditions: ">> \o match.err,
                  trace |-> match.trace, heap |-> h]
            ELSE IF ~match.matched
            THEN [status |-> "result", result |-> EvaluationResult(TRUE, <<>>, <<>>, 0, <<>>),
                  trace |-> match.trace, heap |-> h]
            ELSE Mutate(match.trace, applyMutations(policy.Mutations, object, bag, h))
        Setup(bag) == Match(bag, evaluateMatchConditionsV1Beta1(policy.MatchConditions, bag, h))
        Primary(primaryObject) ==
            IF primaryObject = 0
            THEN [status |-> "error", err |-> errMutatingRequiresObject, trace |-> <<>>,
                  heap |-> h]
            ELSE Setup(prepareMutatingVars(convertAdmissionRequest(request), primaryObject,
                                           oldObject, params, namespaceObj, authorizer,
                                           userInfo))
        Gate(gate) ==
            IF gate.err # NoErr
            THEN [status |-> "error", err |-> <<"evaluate namespace selector: ">> \o gate.err,
                  trace |-> <<>>, heap |-> h]
            ELSE IF ~gate.matched
            THEN [status |-> "result", result |-> EvaluationResult(TRUE, <<>>, <<>>, 0, <<>>),
                  trace |-> <<>>, heap |-> h]
            ELSE Primary(getPrimaryObject(object, oldObject))
    IN  Gate(matchesNamespaceSelectorV1Beta1(binding, namespaceObj, h))

---------------------------------------------------------------------------
(* The test oracle.  A TestResult also records, in compared, the fields of *)
(* the expectation that were compared, in the order of the comparisons.    *)

(* A checkWarnings that compares the two lists without regard to order.    *)
checkWarnings_AnyOrder(expected, actual) ==
    IF Len(expected) = 0
    THEN [isNil |-> TRUE]
    ELSE IF Len(actual) = 0
    THEN [isNil |-> FALSE, Passed |-> FALSE, Message |-> <<"expected warnings ", "got none">>]
    ELSE IF Len(actual) # Len(expected)
    THEN [isNil |-> FALSE, Passed |-> FALSE,
          Message |-> <<"expected ", ToString(Len(expected)), " warnings, got ",
                        ToString(Len(actual))>>]
    ELSE IF {actual[i] : i \in 1..Len(actual)} # {expected[i] : i \in 1..Len(expected)}
    THEN [isNil |-> FALSE, Passed |-> FALSE,
          Message |-> <<"warning[", "0", "] does not match expected:\n">>]
    ELSE [isNil |-> TRUE]

(* checkWarnings: nil (passed) or the failure.                             *)
checkWarnings(expected, actual) ==
    IF Len(expected) = 0
    THEN [isNil |-> TRUE]
    ELSE IF Len(actual) = 0
    THEN [isNil |-> FALSE, Passed |-> FALSE, Message |-> <<"expected warnings ", "got none">>]
    ELSE IF Len(actual) # Len(expected)
    THEN [isNil |-> FALSE, Passed |-> FALSE,
          Message |-> <<"expected ", ToString(Len(expected)), " warnings, got ",
                        ToString(Len(actual))>>]
    ELSE IF \E i \in 1..Len(expected) : actual[i] # expected[i]
    THEN [isNil |-> FALSE, Passed |-> FALSE,
          Message |-> <<"warning[", ToString((CHOOSE i \in 1..Len(expected) :
                                        /\ actual[i] # expected[i]
                                        /\ \A j \in 1..(i - 1) : actual[j] = expected[j]) - 1),
                        "] does not match expected:\n">>]
    ELSE [isNil |-> TRUE]

(* A checkAuditAnnotations that compares the expected annotations with all *)
(* the actual ones.                                                        *)
checkAuditAnnotations_Exact(expected, actual) ==
    IF DOMAIN expected.AuditAnnotations = {}
    THEN [isNil |-> TRUE]
    ELSE IF expected.AuditAnnotations # actual.AuditAnnotations
    THEN [isNil |-> FALSE, Passed |-> FALSE,
          Message |-> <<"audit annotations do not match expected:\n">>]
    ELSE [isNil |-> TRUE]

(* checkAuditAnnotations: nil (passed) or the failure, a new TestResult.   *)
checkAuditAnnotations(expected, actual) ==
    IF DOMAIN expected.AuditAnnotations = {}
    THEN [isNil |-> TRUE]
    ELSE LET actualFiltered ==
                 [k \in (DOMAIN expected.AuditAnnotations) \cap (DOMAIN actual.AuditAnnotations)
                     |-> actual.AuditAnnotations[k]]
         IN  IF expected.AuditAnnotations # actualFiltered
             THEN [isNil |-> FALSE, Passed |-> FALSE,
                   Message |-> <<"audit annotations do not match expected:\n">>]
             ELSE [isNil |-> TRUE]

(* A checkMutatedObject that is content with any object at all.            *)
checkMutatedObject_PresenceOnly(expected, actual, h) ==
    IF expected.Object = 0
    THEN [isNil |-> TRUE]
    ELSE IF actual.Object = 0
    THEN [isNil |-> FALSE, Passed |-> FALSE, Message |-> <<"expected mutated object, got none">>]
    ELSE [isNil |-> TRUE]

(* checkMutatedObject: nil (passed) or the failure, a new TestResult.      *)
checkMutatedObject(expected, actual, h) ==
    IF expected.Object = 0
    THEN [isNil |-> TRUE]
    ELSE IF actual.Object = 0
    THEN [isNil |-> FALSE, Passed |-> FALSE, Message |-> <<"expected mutated object, got none">>]
    ELSE IF h[expected.Object] # h[actual.Object]
    THEN [isNil |-> FALSE, Passed |-> FALSE,
          Message |-> <<"mutated object does not match expected:\n">>]
    ELSE [isNil |-> TRUE]

(* A validateTestResult that compares the warnings before the audit       *)
(* annotations.                                                            *)
validateTestResult_WarningsFirst(result, expected, actual, h) ==
    LET Failure(failed, compared) ==
            [Passed |-> FALSE, Message |-> failed.Message, Expected |-> Nil,
             Actual |-> Nil, PatchedObject |-> 0, compared |-> compared]
        Object(object) ==
            IF ~object.isNil
            THEN Failure(object, <<"allowed", "warnings", "auditAnnotations", "message",
                                   "object">>)
            ELSE [result EXCEPT !.Passed = TRUE,
                                !.compared = <<"allowed", "warnings", "auditAnnotations",
                                               "message", "object">>]
        Annotations(annotations) ==
            IF ~annotations.isNil
            THEN Failure(annotations, <<"allowed", "warnings", "auditAnnotations">>)
            ELSE IF expected.Message # <<>> /\ actual.Message # expected.Message
            THEN [result EXCEPT !.Passed = FALSE,
                                !.Message = <<"message does not match expected:\n">>,
                                !.compared = <<"allowed", "warnings", "auditAnnotations",
                                               "message">>]
            ELSE Object(checkMutatedObject(expected, actual, h))
        Warnings(warnings) ==
            IF ~warnings.isNil
            THEN [result EXCEPT !.Passed = FALSE, !.Message = warnings.Message,
                                !.compared = <<"allowed", "warnings">>]
            ELSE Annotations(checkAuditAnnotations(expected, actual))
    IN  IF actual.Allowed # expected.Allowed
        THEN [result EXCEPT !.Passed = FALSE,
                            !.Message = <<"expected allowed=", ToString(expected.Allowed),
                                          ", got allowed=", ToString(actual.Allowed)>>,
                            !.compared = <<"allowed">>]
        ELSE Warnings(checkWarnings(expected.Warnings, actual.Warnings))

(* validateTestResult: the rules in order, the first failure returned.     *)
validateTestResult(result, expected, actual, h) ==
    LET Failure(failed, compared) ==
            [Passed |-> FALSE, Message |-> failed.Message, Expected |-> Nil,
             Actual |-> Nil, PatchedObject |-> 0, compared |-> compared]
        Object(object) ==
            IF ~object.isNil
            THEN Failure(object, <<"allowed", "auditAnnotations", "warnings", "message",
                                   "object">>)
            ELSE [result EXCEPT !.Passed = TRUE,
                                !.compared = <<"allowed", "auditAnnotations", "warnings",
                                               "message", "object">>]
        Warnings(warnings) ==
            IF ~warnings.isNil
            THEN [result EXCEPT !.Passed = FALSE, !.Message = warnings.Message,
                                !.compared = <<"allowed", "auditAnnotations", "warnings">>]
            ELSE IF expected.Message # <<>> /\ actual.Message # expected.Message
            THEN [result EXCEPT !.Passed = FALSE,
                                !.Message = <<"message does not match expected:\n">>,
                                !.compared = <<"allowed", "auditAnnotations", "warnings",
                                               "message">>]
            ELSE Object(checkMutatedObject(expected, actual, h))
        Annotations(annotations) ==
            IF ~annotations.isNil
            THEN Failure(annotations, <<"allowed", "auditAnnotations">>)
            ELSE Warnings(checkWarnings(expected.Warnings, actual.Warnings))
    IN  IF actual.Allowed # expected.Allowed
        THEN [result EXCEPT !.Passed = FALSE,
                            !.Message = <<"expected allowed=", ToString(expected.Allowed),
                                          ", got allowed=", ToString(actual.Allowed)>>,
                            !.compared = <<"allowed">>]
        ELSE Annotations(checkAuditAnnotations(expected, actual))

(* evaluatePolicy: the mutating policy if there is one, else the           *)
(* validating policy, else an error.                                       *)
evaluatePolicy(mutatingPolicy, mutatingBinding, validatingPolicy, validatingBinding, testCase, h) ==
    LET auth == IF Len(testCase.Authorizer) > 0
                THEN NewMockAuthorizerFromConfig(testCase.Authorizer)
                ELSE Nil
    IN  IF ~mutatingPolicy.isNil
        THEN EvaluateMutating(mutatingPolicy, mutatingBinding, testCase.Request,
                              testCase.Object, testCase.OldObject, testCase.Params,
                              testCase.NamespaceObj, auth, testCase.UserInfo, h)
        ELSE IF ~validatingPolicy.isNil
        THEN EvaluateValidating(validatingPolicy, validatingBinding, testCase.Request,
                                testCase.Object, testCase.OldObject, testCase.Params,
                                testCase.NamespaceObj, auth, testCase.UserInfo, h)
        ELSE [status |-> "error", err |-> errNoPolicy, trace |-> <<>>, heap |-> h]

(* An EvaluateTest that looks at the loading error after the evaluation.   *)
EvaluateTest_LoadErrorLate(mutatingPolicy, mutatingBinding, validatingPolicy, validatingBinding, testCase, h) ==
    LET expected == [Allowed |-> testCase.ExpectAllowed,
                     Message |-> testCase.ExpectMessage,
                     Object |-> testCase.ExpectedObject,
                     Warnings |-> testCase.ExpectWarnings,
                     AuditAnnotations |-> testCase.ExpectAuditAnnotations]
        eval == evaluatePolicy(mutatingPolicy, mutatingBinding, validatingPolicy,
                               validatingBinding, testCase, h)
        actual == [Allowed |-> eval.result.Allowed,
                   Message |-> eval.result.Message,
                   Warnings |-> eval.result.Warnings,
                   AuditAnnotations |-> eval.result.AuditAnnotations,
                   Object |-> IF eval.result.PatchedObject # 0
                              THEN eval.result.PatchedObject
                              ELSE testCase.Object]
        result == [Passed |-> FALSE, Message |-> <<>>, Expected |-> expected,
                   Actual |-> actual, PatchedObject |-> eval.result.PatchedObject,
                   compared |-> <<>>]
    IN  IF eval.status = "panic"
        THEN [status |-> "panic", evaluated |-> TRUE, trace |-> eval.trace, heap |-> eval.heap]
        ELSE IF eval.status = "error"
        THEN [status |-> "result", evaluated |-> TRUE, trace |-> eval.trace, heap |-> eval.heap,
              result |-> [Passed |-> FALSE, Message |-> <<"evaluation error: ">> \o eval.err,
                          Expected |-> expected, Actual |-> Nil, PatchedObject |-> 0,
                          compared |-> <<>>]]
        ELSE IF testCase.Error # NoErr
        THEN [status |-> "result", evaluated |-> TRUE, trace |-> eval.trace, heap |-> eval.heap,
              result |-> [Passed |-> FALSE, Message |-> <<"test loading error: ">> \o testCase.Error,
                          Expected |-> expected, Actual |-> Nil, PatchedObject |-> 0,
                          compared |-> <<>>]]
        ELSE [status |-> "result", evaluated |-> TRUE, trace |-> eval.trace, heap |-> eval.heap,
              result |-> validateTestResult(result, expected, actual, eval.heap)]

(* EvaluateTest: a loading error, an evaluation error, or the comparison.  *)
(* evaluated tells whether evaluatePolicy was called.                      *)
EvaluateTest(mutatingPolicy, mutatingBinding, validatingPolicy, validatingBinding, testCase, h) ==
    LET expected == [Allowed |-> testCase.ExpectAllowed,
                     Message |-> testCase.ExpectMessage,
                     Object |-> testCase.ExpectedObject,
                     Warnings |-> testCase.ExpectWarnings,
                     AuditAnnotations |-> testCase.ExpectAuditAnnotations]
        Outcome(evalResult) ==
            [Allowed |-> evalResult.Allowed,
             Message |-> evalResult.Message,
             Warnings |-> evalResult.Warnings,
             AuditAnnotations |-> evalResult.AuditAnnotations,
             Object |-> IF evalResult.PatchedObject # 0
                        THEN evalResult.PatchedObject
                        ELSE testCase.Object]
        Validate(evalResult, actual, h2) ==
            validateTestResult([Passed |-> FALSE, Message |-> <<>>, Expected |-> expected,
                                Actual |-> actual, PatchedObject |-> evalResult.PatchedObject,
                                compared |-> <<>>],
                               expected, actual, h2)
        Compare(eval) ==
            IF eval.status = "panic"
            THEN [status |-> "panic", evaluated |-> TRUE, trace |-> eval.trace,
                  heap |-> eval.heap]
            ELSE IF eval.status = "error"
            THEN [status |-> "result", evaluated |-> TRUE, trace |-> eval.trace,
                  heap |-> eval.heap,
                  result |-> [Passed |-> FALSE,
                              Message |-> <<"evaluation error: ">> \o eval.err,
                              Expected |-> expected, Actual |-> Nil, PatchedObject |-> 0,
                              compared |-> <<>>]]
            ELSE [status |-> "result", evaluated |-> TRUE, trace |-> eval.trace,
                  heap |-> eval.heap,
                  result |-> Validate(eval.result, Outcome(eval.result), eval.heap)]
    IN  IF testCase.Error # NoErr
        THEN [status |-> "result", evaluated |-> FALSE, trace |-> <<>>, heap |-> h,
              result |-> [Passed |-> FALSE,
                          Message |-> <<"test loading error: ">> \o testCase.Error,
                          Expected |-> expected, Actual |-> Nil, PatchedObject |-> 0,
                          compared |-> <<>>]]
        ELSE Compare(evaluatePolicy(mutatingPolicy, mutatingBinding, validatingPolicy,
                                    validatingBinding, testCase, h))

---------------------------------------------------------------------------
(* The inputs.                                                             *)

(* All sequences over S of length n.                                       *)
SeqsOfLen(choices, n) == [1..n -> choices]

MatchCondition(expression) == [Name |-> "c", Expression |-> expression]
AuditAnnotation(key, valueExpression) == [Key |-> key, ValueExpression |-> valueExpression]
Validation(expression, message, messageExpression) ==
    [Expression |-> expression, Message |-> message, MessageExpression |-> messageExpression]
JSONPatchMutation(expression) ==
    [PatchType |-> "JSONPatch", JSONPatch |-> [isNil |-> FALSE, Expression |-> expression],
     ApplyConfiguration |-> Nil]
ApplyConfigurationMutation(expression) ==
    [PatchType |-> "ApplyConfiguration", JSONPatch |-> Nil,
     ApplyConfiguration |-> [isNil |-> FALSE, Expression |-> expression]]

MatchConditionChoices ==
    {MatchCondition("true"), MatchCondition("false"), MatchCondition("bad("),
     MatchCondition("1")}

AuditAnnotationChoices ==
    {AuditAnnotation("k1", "'x'"), AuditAnnotation("k1", "''"), AuditAnnotation("k2", "'y'"),
     AuditAnnotation("k1", "1"), AuditAnnotation("k2", "bad(")}

ValidationChoices ==
    {Validation("true", <<"m0">>, ""),
     Validation("bad(", <<"m0">>, ""),
     Validation("1", <<"m0">>, ""),
     Validation("false", <<"m1">>, ""),
     Validation("false", <<>>, ""),
     Validation("false", <<"m1">>, "'x'"),
     Validation("false", <<"m2">>, "' '"),
     Validation("false", <<>>, "''"),
     Validation("false", <<"m2">>, "1"),
     Validation("false", <<"m1">>, "bad(")}

MutationChoices ==
    {JSONPatchMutation("[]"),
     JSONPatchMutation("[JSONPatch{op: 'add', path: '/b', value: 'p'}]"),
     JSONPatchMutation("[JSONPatch{op: 'replace', path: '/a', value: 'q'}]"),
     JSONPatchMutation("[JSONPatch{op: 'remove', path: '/b'}]"),
     JSONPatchMutation("[JSONPatch{op: 'add', path: '/c', value: object.a}]"),
     JSONPatchMutation("bad("),
     JSONPatchMutation("'x'"),
     JSONPatchMutation("[1]"),
     [PatchType |-> "JSONPatch", JSONPatch |-> Nil, ApplyConfiguration |-> Nil],
     ApplyConfigurationMutation("Object{b: 'c'}"),
     ApplyConfigurationMutation("Object{a: Object{n: 'c'}}"),
     ApplyConfigurationMutation("[]"),
     [PatchType |-> "Other", JSONPatch |-> Nil, ApplyConfiguration |-> Nil]}

ValidatingPolicy(mc, an, va) ==
    [isNil |-> FALSE, MatchConditions |-> mc, AuditAnnotations |-> an, Validations |-> va]
MutatingPolicy(mc, mu) ==
    [isNil |-> FALSE, MatchConditions |-> mc, Mutations |-> mu]

(* The policies with at most one expression of each kind.                  *)
UpToOne(choices) == SeqsOfLen(choices, 0) \cup SeqsOfLen(choices, 1)
ShortValidatingPolicies ==
    {ValidatingPolicy(mc, an, va) :
        mc \in UpToOne(MatchConditionChoices), an \in UpToOne(AuditAnnotationChoices),
        va \in UpToOne(ValidationChoices)}
ShortMutatingPolicies ==
    {MutatingPolicy(mc, mu) :
        mc \in UpToOne(MatchConditionChoices), mu \in UpToOne(MutationChoices)}

(* validationActions of a binding: nothing, one action, or a first action  *)
(* followed by another one.                                                *)
ActionChoices ==
    {<<>>, <<"Deny">>, <<"Warn">>, <<"Audit">>,
     <<"Deny", "Warn">>, <<"Warn", "Audit">>, <<"Audit", "Deny">>}

(* Objects.                                                                *)
ObjA == M([k \in {"a"} |-> S("x")])
ObjAB == M([k \in {"a", "b"} |-> IF k = "a" THEN M([j \in {"n"} |-> S("int64:1")]) ELSE S("y")])
Namespace(labels) ==
    M([k \in {"metadata"} |-> M([j \in {"labels"} |-> M(labels)])])
NsProd == Namespace([k \in {"env"} |-> S("prod")])
NsDev == Namespace([k \in {"env"} |-> S("dev")])
NsBare == M([k \in {"metadata"} |-> EmptyMap])

GroupVersionKind(group, version, kind) == [Group |-> group, Version |-> version, Kind |-> kind]
GroupVersionResource(group, version, resource) ==
    [Group |-> group, Version |-> version, Resource |-> resource]
UserInfo(username, uid, groups, extra) ==
    [Username |-> username, UID |-> uid, Groups |-> groups, Extra |-> extra]
AdmissionRequest(uid, subResource, name, namespace, operation, kind, resource, userInfo) ==
    [isNil |-> FALSE, uid |-> uid, subResource |-> subResource, name |-> name,
     namespace |-> namespace, operation |-> operation, Kind |-> kind, Resource |-> resource,
     UserInfo |-> userInfo]

Request ==
    AdmissionRequest("u1", "", "n1", "default", "CREATE", GroupVersionKind("", "", ""),
                     GroupVersionResource("", "", ""), UserInfo("", "", <<>>, <<>>))

(* The requests given to convertAdmissionRequest: no request, and every    *)
(* request with each field empty or not.                                   *)
RequestChoices ==
    {Nil} \cup
    {AdmissionRequest(uid, sr, nm, ns, op, GroupVersionKind("", "v1", k),
                      GroupVersionResource("", "v1", r), UserInfo(un, id, gr, ex)) :
        uid \in {"", "u1"}, sr \in {"", "status"}, nm \in {"", "n1"}, ns \in {"", "default"},
        op \in {"", "CREATE"}, k \in {"", "Pod"}, r \in {"", "pods"},
        un \in {"", "admin"}, id \in {"", "u2"}, gr \in {<<>>, <<"g1">>},
        ex \in {<<>>, [e \in {"scope"} |-> <<"s1">>]}}
ConvertCalls ==
    {[via |-> "convertAdmissionRequest", Request |-> r, memory |-> <<>>] : r \in RequestChoices}

(* A call's inputs: the objects are put in memory, the test case holds     *)
(* their references.  A value of Nil is an object that is not given.       *)
Case(kind, via, policy, binding, object, oldObject, namespaceObj, expectedObject, expect) ==
    LET given == <<object, oldObject, namespaceObj, expectedObject>>
        RefOf(i) == IF given[i].isNil THEN 0
                    ELSE Cardinality({j \in 1..i : ~given[j].isNil})
        memory == [r \in 1..Cardinality({j \in 1..4 : ~given[j].isNil}) |->
                      given[CHOOSE i \in 1..4 : RefOf(i) = r].val]
    IN  [kind |-> kind, via |-> via, policy |-> policy, binding |-> binding,
         Request |-> Request, Object |-> RefOf(1), OldObject |-> RefOf(2), Params |-> 0,
         NamespaceObj |-> RefOf(3), UserInfo |-> Nil, Authorizer |-> <<>>, auth |-> Nil,
         ExpectAllowed |-> expect.Allowed, ExpectMessage |-> expect.Message,
         ExpectWarnings |-> expect.Warnings,
         ExpectAuditAnnotations |-> expect.AuditAnnotations,
         ExpectedObject |-> RefOf(4), Error |-> expect.Error,
         memory |-> memory]

Given(v) == [isNil |-> FALSE, val |-> v]

NoExpectation ==
    [Allowed |-> TRUE, Message |-> <<>>, Warnings |-> <<>>, AuditAnnotations |-> <<>>,
     Error |-> NoErr]

SelectorChoices ==
    {Nil, LabelSelector(<<>>, TRUE), LabelSelector([k \in {"env"} |-> "prod"], TRUE),
     LabelSelector([k \in {"env"} |-> "prod"], FALSE)}
NamespaceChoices == {Nil, Given(NsProd), Given(NsDev), Given(NsBare)}

(* Direct calls with a namespace selector on the binding.                  *)
GateValidating ==
    {Case("validating", "direct", p, Binding(MatchResources(sel), <<"Deny">>),
          Given(ObjA), Nil, ns, Nil, NoExpectation) :
        p \in ShortValidatingPolicies, sel \in SelectorChoices, ns \in NamespaceChoices}
GateMutating ==
    {Case("mutating", "direct", p, Binding(MatchResources(sel), <<>>),
          Given(ObjA), Nil, ns, Nil, NoExpectation) :
        p \in ShortMutatingPolicies, sel \in SelectorChoices, ns \in NamespaceChoices}

ObjectChoices == {<<Given(ObjA), Nil>>, <<Given(ObjAB), Given(ObjA)>>, <<Nil, Given(ObjA)>>,
                  <<Nil, Nil>>}

(* Test cases for EvaluateTest.                                            *)
Expectations ==
    [Allowed : BOOLEAN, Message : {<<>>, <<"m1">>}, Warnings : {<<>>, << <<"m1">> >>},
     AuditAnnotations : {<<>>, [k \in {"k1"} |-> <<"x">>]},
     Error : {NoErr, <<"loading error">>}]
TestCases ==
    {Case("validating", "test", p, b, Given(ObjA), Nil, Nil, Nil, e) :
        p \in {q \in ShortValidatingPolicies : Len(q.MatchConditions) = 0},
        b \in {Nil, Binding(Nil, <<"Warn">>)}, e \in Expectations}
    \cup
    {Case("mutating", "test", p, Nil, Given(ObjA), Nil, Nil, g, e) :
        p \in {q \in ShortMutatingPolicies : Len(q.MatchConditions) = 0},
        g \in {Nil, Given(ObjA)}, e \in Expectations}
    \cup
    {Case("none", "test", Nil, Nil, Given(ObjA), Nil, Nil, Nil, e) : e \in Expectations}

(* An InferOperation that infers from the files even when the request      *)
(* names its operation.                                                    *)
InferOperation_FilesFirst(hasObject, hasOldObject, requestOpStr) ==
    IF hasObject /\ ~hasOldObject THEN [op |-> "CREATE", err |-> NoErr]
    ELSE IF ~hasObject /\ hasOldObject THEN [op |-> "DELETE", err |-> NoErr]
    ELSE IF hasObject /\ hasOldObject THEN [op |-> "UPDATE", err |-> NoErr]
    ELSE IF requestOpStr # "" THEN [op |-> requestOpStr, err |-> NoErr]
    ELSE [op |-> "",
          err |-> <<"cannot infer operation", ": no object/oldObject files and no explicit operation">>]

(* InferOperation: the operation of the request, explicit or inferred from *)
(* the files that are there.                                               *)
InferOperation(hasObject, hasOldObject, requestOpStr) ==
    IF requestOpStr # "" THEN [op |-> requestOpStr, err |-> NoErr]
    ELSE IF hasObject /\ ~hasOldObject THEN [op |-> "CREATE", err |-> NoErr]
    ELSE IF ~hasObject /\ hasOldObject THEN [op |-> "DELETE", err |-> NoErr]
    ELSE IF hasObject /\ hasOldObject THEN [op |-> "UPDATE", err |-> NoErr]
    ELSE [op |-> "",
          err |-> <<"cannot infer operation", ": no object/oldObject files and no explicit operation">>]

OperationChoices == {"", "CONNECT", "CREATE", "UPDATE", "DELETE", "PATCH"}
InferCalls ==
    {[via |-> "InferOperation", hasObject |-> o, hasOldObject |-> d, requestOpStr |-> r,
      memory |-> <<>>] :
        o \in BOOLEAN, d \in BOOLEAN, r \in OperationChoices}

(* expectedAllowed: the decision a test expects, read off its base name,   *)
(* a sequence of tokens.                                                   *)
expectedAllowed(baseName) ==
    IF \/ \E i \in 1..Len(baseName) : baseName[i] = ".deny."
       \/ Len(baseName) > 0 /\ baseName[Len(baseName)] = ".deny"
    THEN FALSE
    ELSE IF \E i \in 1..Len(baseName) : baseName[i] \in {".audit.", ".warn."}
    THEN TRUE
    ELSE TRUE

(* Test cases as a suite loads them: the expected decision comes from the  *)
(* base name, and the message, the warnings, the annotations and the gold  *)
(* object from files that may be absent.  The policy has no match          *)
(* condition or one that is false.                                         *)
ObjAP == M([k \in {"a", "b"} |-> IF k = "a" THEN S("x") ELSE S("p")])
BaseNames ==
    {<<"policy", ".allow.", "case">>, <<"policy", ".deny.", "case">>,
     <<"policy", ".warn.", "case">>, <<"policy", ".audit.", "case">>,
     <<"policy", ".case", ".deny">>}
SuiteConditions == {<<>>, <<MatchCondition("false")>>}
SuiteExpectation(baseName, message, warnings, annotations) ==
    [Allowed |-> expectedAllowed(baseName), Message |-> message, Warnings |-> warnings,
     AuditAnnotations |-> annotations, Error |-> NoErr]
SuiteValidatingCases ==
    {[Name |-> n] @@
     Case("validating", "test", ValidatingPolicy(mc, an, va), Binding(Nil, <<a>>),
          Given(ObjA), Nil, Nil, Nil, SuiteExpectation(n, m, w, e)) :
        n \in BaseNames, mc \in SuiteConditions,
        an \in UpToOne({AuditAnnotation("k1", "'x'")}),
        va \in UpToOne({Validation("true", <<"m0">>, ""), Validation("false", <<"m1">>, "")}),
        a \in {"Deny", "Warn", "Audit"},
        m \in {<<>>, <<"m1">>}, w \in {<<>>, << <<"m1">> >>},
        e \in {<<>>, [k \in {"k1"} |-> <<"x">>]}}
SuiteMutatingCases ==
    {[Name |-> n] @@
     Case("mutating", "test", MutatingPolicy(mc, mu), Nil, Given(ObjA), Nil, Nil, g,
          SuiteExpectation(n, <<>>, <<>>, <<>>)) :
        n \in {<<"policy", ".allow.", "case">>, <<"policy", ".case">>},
        mc \in SuiteConditions,
        mu \in UpToOne({JSONPatchMutation("[]"),
                        JSONPatchMutation("[JSONPatch{op: 'add', path: '/b', value: 'p'}]")}),
        g \in {Nil, Given(ObjA), Given(ObjAP)}}

---------------------------------------------------------------------------
(* Inputs of mergeObjects, called on its own: mappings under the keys a    *)
(* and b whose values are scalars, sequences and mappings nested two deep. *)
MergeValues ==
    {S("x"), L(<<"x", "y">>), L(<<"z">>),
     M([k \in {"n"} |-> S("x")]),
     M([k \in {"o"} |-> S("z")]),
     M([k \in {"n"} |-> M([j \in {"p"} |-> S("x")])]),
     M([k \in {"n", "o"} |-> IF k = "n" THEN M([j \in {"q"} |-> L(<<"z">>)]) ELSE S("y")])}
MergeDocuments ==
    UNION {[keys -> MergeValues] : keys \in SUBSET {"a", "b"}}
MergeCalls ==
    {[via |-> "mergeObjects", dst |-> d, src |-> c, memory |-> <<>>] :
        d \in MergeDocuments, c \in MergeDocuments}

---------------------------------------------------------------------------
(* The reporter.  A Reporter is the record of its counters, its format and *)
(* its suite-level fields; the bytes it writes to its output and the times *)
(* it measures are not part of the model.                                  *)

errTestsFailed == "tests failed"

New ==
    [isNil |-> FALSE, format |-> "FormatDefault",
     totalTests |-> 0, passedTests |-> 0, failedTests |-> 0,
     currentSuite |-> "", suitePassedTests |-> 0, suiteFailedTests |-> 0,
     suiteFirstFailure |-> FALSE]

SetFormat(r, format) == [r EXCEPT !.format = format]

endSuite(r) == IF r.currentSuite = "" THEN r ELSE [r EXCEPT !.currentSuite = ""]

StartSuite(r, suiteName) ==
    [(IF r.currentSuite # "" THEN endSuite(r) ELSE r) EXCEPT
        !.currentSuite = suiteName, !.suitePassedTests = 0, !.suiteFailedTests = 0,
        !.suiteFirstFailure = TRUE]

StartTest(r, suiteName, testName) == [r EXCEPT !.totalTests = @ + 1]

ReportPass(r, suiteName, testName) ==
    [r EXCEPT !.passedTests = @ + 1, !.suitePassedTests = @ + 1]

(* ReportFail counting the failure for the suite only.                     *)
ReportFail_SuiteOnly(r, suiteName, testName, message) ==
    [r EXCEPT !.suiteFailedTests = @ + 1,
              !.suiteFirstFailure = IF r.format = "FormatDefault" THEN FALSE ELSE @]

ReportFail(r, suiteName, testName, message) ==
    [r EXCEPT !.failedTests = @ + 1, !.suiteFailedTests = @ + 1,
              !.suiteFirstFailure = IF r.format = "FormatDefault" THEN FALSE ELSE @]

ReportResult(r, suiteName, testName, result) ==
    IF result.Passed THEN ReportPass(r, suiteName, testName)
    ELSE ReportFail(r, suiteName, testName, result.Message)

(* Summary: the reporter after the last suite has ended, and the error.    *)
Summary(r) ==
    [r |-> IF r.currentSuite # "" THEN endSuite(r) ELSE r,
     err |-> IF r.failedTests > 0 THEN <<errTestsFailed, ": ", ToString(r.failedTests)>>
             ELSE NoErr]

Stats(r) == <<r.totalTests, r.passedTests, r.failedTests>>

(* The formats, suites, tests and results of the reporter calls.           *)
OutputFormats == {"FormatDefault", "FormatVerbose", "FormatJSON"}
SuiteNames == {"s1", "s2"}
TestNames == {"t1", "t2"}
TestResult(passed, message) == [Passed |-> passed, Message |-> message]
TestResults == {TestResult(TRUE, <<>>), TestResult(FALSE, <<"m1", " ">>)}
ReporterRuns == {[via |-> "Reporter", format |-> f, memory |-> <<>>] : f \in OutputFormats}
NoCalls == [starts |-> [t \in TestNames |-> 0], passes |-> [t \in TestNames |-> 0],
            fails |-> [t \in TestNames |-> 0]]

---------------------------------------------------------------------------
(* The command: main, with the command line, the outcomes of loading the   *)
(* paths and of creating the evaluator, and the outcome of each test given *)
(* as inputs.  A test's outcome is "pass" or "fail", the result of         *)
(* EvaluateTest, or "notfound" when the suite has no policy of its name.   *)

(* parseFlags: the flag set is made with flag.ExitOnError, so a command    *)
(* line that does not parse ends the process with code 2 and -h or -help   *)
(* with code 0.                                                            *)
parseFlags(args) ==
    CASE args.flags = "invalid" -> [exited |-> TRUE, code |-> 2]
      [] args.flags = "help" -> [exited |-> TRUE, code |-> 0]
      [] OTHER -> [exited |-> FALSE, code |-> 0, verbose |-> args.v,
                   jsonOutput |-> args.json, testPaths |-> args.paths]

(* loadSuites: the suites of the paths, or the error of the first path     *)
(* that fails to load.                                                     *)
RECURSIVE loadSuites(_)
loadSuites(paths) ==
    IF paths = <<>> THEN [err |-> NoErr, suites |-> <<>>]
    ELSE IF Head(paths).err
         THEN [err |-> <<"load test suites from ", "path", ": ", "load error">>,
               suites |-> <<>>]
         ELSE LET Rest(rest) ==
                      IF rest.err # NoErr THEN rest
                      ELSE [err |-> NoErr, suites |-> Head(paths).suites \o rest.suites]
              IN  Rest(loadSuites(Tail(paths)))

configureReporter(r, cfg) ==
    CASE cfg.jsonOutput -> SetFormat(r, "FormatJSON")
      [] cfg.verbose -> SetFormat(r, "FormatVerbose")
      [] OTHER -> SetFormat(r, "FormatDefault")

(* runSuite: every test of the suite started and reported, then the suite  *)
(* ended.                                                                  *)
RECURSIVE runTests(_, _, _)
runTests(r, suite, i) ==
    IF i > Len(suite.Tests) THEN endSuite(r)
    ELSE LET started == StartTest(r, suite.Name, "test")
         IN  runTests(IF suite.Tests[i] = "notfound"
                      THEN ReportFail(started, suite.Name, "test", <<"policy not found">>)
                      ELSE ReportResult(started, suite.Name, "test",
                                        TestResult(suite.Tests[i] = "pass", <<"m1">>)),
                      suite, i + 1)
runSuite(r, suite) == runTests(StartSuite(r, suite.Name), suite, 1)

RECURSIVE runSuites(_, _, _)
runSuites(r, suites, i) ==
    IF i > Len(suites) THEN r ELSE runSuites(runSuite(r, suites[i]), suites, i + 1)

executeTests(suites, cfg, evaluatorErr) ==
    IF evaluatorErr THEN <<"create evaluator: ", "evaluator error">>
    ELSE LET summary == Summary(runSuites(configureReporter(New, cfg), suites, 1))
         IN  IF summary.err # NoErr THEN <<"test summary: ">> \o summary.err ELSE NoErr

run(args, evaluatorErr) ==
    LET cfg == parseFlags(args)
    IN  IF cfg.exited THEN [exited |-> TRUE, code |-> cfg.code, err |-> NoErr]
        ELSE LET loaded == loadSuites(cfg.testPaths)
             IN  [exited |-> FALSE, code |-> 0,
                  err |-> IF loaded.err # NoErr THEN loaded.err
                          ELSE executeTests(loaded.suites, cfg, evaluatorErr)]

(* main: the exit code of the process.                                     *)
main(args, evaluatorErr) ==
    LET ran == run(args, evaluatorErr)
    IN  IF ran.exited THEN ran.code
        ELSE IF ran.err # NoErr THEN 1 ELSE 0

(* The runs of the command: a command line that parses, does not parse or  *)
(* asks for help; one or two paths, each failing to load or holding one    *)
(* suite of at most MaxTests tests.                                        *)
TestOutcomes == {"pass", "fail", "notfound"}
PathChoices ==
    {[err |-> TRUE, suites |-> <<>>]} \cup
    {[err |-> FALSE, suites |-> <<[Name |-> "s1", Tests |-> ts]>>] :
        ts \in UNION {SeqsOfLen(TestOutcomes, n) : n \in 0..MaxTests}}
ArgsChoices ==
    {[flags |-> f, v |-> FALSE, json |-> FALSE, paths |-> <<>>] : f \in {"invalid", "help"}}
    \cup {[flags |-> "valid", v |-> v, json |-> FALSE, paths |-> <<p>>] :
             v \in BOOLEAN, p \in PathChoices}
    \cup {[flags |-> "valid", v |-> FALSE, json |-> TRUE, paths |-> <<p, q>>] :
             p \in PathChoices,
             q \in {x \in PathChoices : Len(x.suites) = 0 \/ Len(x.suites[1].Tests) <= 1}}
MainCalls ==
    {[via |-> "main", args |-> a, evaluatorErr |-> e, memory |-> <<>>] :
        a \in ArgsChoices, e \in BOOLEAN}

---------------------------------------------------------------------------
(* The loader: a test assembled from the files of one base name.  The      *)
(* files of a test are a record: object, oldObject and request are the     *)
(* .object.yaml, .oldObject.yaml and .request.yaml files, message the      *)
(* .message.txt file, each Nil when the file is absent.  The tests of the  *)
(* model have no params, gold, annotations, warnings or authorizer file,   *)
(* and their request files have no inline object, userInfo or options.     *)

(* strings.TrimSpace.                                                      *)
RECURSIVE TrimLeft(_)
TrimLeft(str) == IF str # <<>> /\ Head(str) = " " THEN TrimLeft(Tail(str)) ELSE str
RECURSIVE TrimRight(_)
TrimRight(str) ==
    IF str # <<>> /\ str[Len(str)] = " " THEN TrimRight(SubSeq(str, 1, Len(str) - 1)) ELSE str
TrimSpace(str) == TrimRight(TrimLeft(str))

(* collectTestFiles: the test files of the base name, in the order of the  *)
(* directory listing, which is sorted by name.                             *)
collectTestFiles(files) ==
    (IF files.object.isNil THEN <<>> ELSE <<".object.yaml">>)
    \o (IF files.oldObject.isNil THEN <<>> ELSE <<".oldObject.yaml">>)
    \o (IF files.request.isNil THEN <<>> ELSE <<".request.yaml">>)

(* newTempTestRequest, and the testRequest buildTestRequest starts from.   *)
newTempTestRequest(filePath, expectAllowed) ==
    [FilePath |-> filePath, Request |-> Nil, Object |-> Nil, OldObject |-> Nil,
     ExpectAllowed |-> expectAllowed, ExpectMessage |-> <<>>, Error |-> NoErr]

(* The request parseObjectYAML and parseOldObjectYAML build for an object. *)
buildRequestFromObject(obj, operation) ==
    AdmissionRequest("test-case", "", obj.name, obj.namespace, operation,
                     GroupVersionKind("", "v1", "Pod"), GroupVersionResource("", "v1", "pods"),
                     UserInfo("", "", <<>>, <<>>))

(* loadMessageFile: the expected message, when there is a message file.    *)
loadMessageFile(testReq, files) ==
    IF files.message.isNil THEN testReq
    ELSE [testReq EXCEPT !.ExpectMessage = TrimSpace(files.message.content)]

(* parseObjectYAML: the object, a CREATE request for it, and the files     *)
(* that go with it.                                                        *)
parseObjectYAML(testReq, files) ==
    IF ~files.object.valid
    THEN [err |-> <<"object: ", "apiVersion is required">>, req |-> testReq]
    ELSE [err |-> NoErr,
          req |-> loadMessageFile([testReq EXCEPT
                                      !.Object = files.object,
                                      !.Request = buildRequestFromObject(files.object, "CREATE")],
                                  files)]

(* parseOldObjectYAML: the old object, a DELETE request for it, and the    *)
(* message file.                                                           *)
parseOldObjectYAML(testReq, files) ==
    IF ~files.oldObject.valid
    THEN [err |-> <<"oldObject: ", "apiVersion is required">>, req |-> testReq]
    ELSE [err |-> NoErr,
          req |-> loadMessageFile([testReq EXCEPT
                                      !.OldObject = files.oldObject,
                                      !.Request = buildRequestFromObject(files.oldObject,
                                                                         "DELETE")],
                                  files)]

(* parseRequestYAML: the request of the file.                              *)
parseRequestYAML(testReq, files) ==
    [err |-> NoErr,
     req |-> [testReq EXCEPT
                 !.Request = AdmissionRequest("test-case", files.request.subResource,
                                              files.request.name, files.request.namespace,
                                              files.request.operation,
                                              GroupVersionKind("", "", ""),
                                              GroupVersionResource("", "", ""),
                                              UserInfo("", "", <<>>, <<>>))]]

parseTestRequestFile(testReq, files) ==
    CASE testReq.FilePath = ".request.yaml" -> parseRequestYAML(testReq, files)
      [] testReq.FilePath = ".object.yaml" -> parseObjectYAML(testReq, files)
      [] testReq.FilePath = ".oldObject.yaml" -> parseOldObjectYAML(testReq, files)

(* mergeRequest: the fields of tempReq's request that are not empty.       *)
mergeRequest(testReq, tempReq) ==
    IF testReq.Request.isNil
    THEN [testReq EXCEPT !.Request = tempReq.Request]
    ELSE LET from == tempReq.Request
             into == testReq.Request
         IN  [testReq EXCEPT !.Request =
                 [into EXCEPT
                     !.operation = IF from.operation # "" THEN from.operation ELSE @,
                     !.subResource = IF from.subResource # "" THEN from.subResource ELSE @,
                     !.namespace = IF from.namespace # "" THEN from.namespace ELSE @,
                     !.name = IF from.name # "" THEN from.name ELSE @,
                     !.UserInfo = IF from.UserInfo.Username # "" THEN from.UserInfo ELSE @,
                     !.Resource = IF from.Resource.Resource # "" THEN from.Resource ELSE @,
                     !.Kind = IF from.Kind.Kind # "" THEN from.Kind ELSE @]]

mergeTestRequests(testReq, tempReq) ==
    LET withObject == IF ~tempReq.Object.isNil THEN [testReq EXCEPT !.Object = tempReq.Object]
                      ELSE testReq
        withOld == IF ~tempReq.OldObject.isNil
                   THEN [withObject EXCEPT !.OldObject = tempReq.OldObject]
                   ELSE withObject
        withRequest == IF ~tempReq.Request.isNil THEN mergeRequest(withOld, tempReq)
                       ELSE withOld
    IN  IF tempReq.ExpectMessage # <<>>
        THEN [withRequest EXCEPT !.ExpectMessage = tempReq.ExpectMessage]
        ELSE withRequest

(* buildTestRequest: the files parsed and merged one after the other, and  *)
(* the operation inferred when there is no request file.                   *)
buildTestRequest(baseName, filePaths, files) ==
    LET expectAllowed == expectedAllowed(baseName)
        hasExplicitRequest == \E i \in 1..Len(filePaths) : filePaths[i] = ".request.yaml"
        Infer(testReq) ==
            IF ~hasExplicitRequest /\ ~testReq.Request.isNil
            THEN LET op == InferOperation(~testReq.Object.isNil, ~testReq.OldObject.isNil, "")
                 IN  IF op.err = NoErr /\ op.op # ""
                     THEN [testReq EXCEPT !.Request.operation = op.op]
                     ELSE testReq
            ELSE testReq
        RECURSIVE Files(_, _)
        Files(i, testReq) ==
            IF i > Len(filePaths)
            THEN Infer(testReq)
            ELSE LET parsed == parseTestRequestFile(
                                   newTempTestRequest(filePaths[i], expectAllowed), files)
                 IN  IF parsed.err # NoErr
                     THEN [testReq EXCEPT
                              !.Error = <<"failed to parse test file ", filePaths[i], ": ">>
                                        \o parsed.err]
                     ELSE Files(i + 1, mergeTestRequests(testReq, parsed.req))
    IN  Files(1, newTempTestRequest(filePaths[1], expectAllowed))

(* The tests given to buildTestRequest: every choice of files with at      *)
(* least one test file among them.                                         *)
ObjectFiles ==
    {Nil, [isNil |-> FALSE, valid |-> TRUE, name |-> "n1", namespace |-> "default"],
     [isNil |-> FALSE, valid |-> FALSE, name |-> "n1", namespace |-> "default"]}
RequestFiles ==
    {Nil} \cup
    {[isNil |-> FALSE, operation |-> op, subResource |-> sr, name |-> "", namespace |-> ""] :
        op \in {"", "UPDATE", "CONNECT"}, sr \in {"", "exec"}}
MessageFiles ==
    {Nil} \cup {[isNil |-> FALSE, content |-> c] :
                   c \in {<<>>, <<"m1">>, <<" ", "m1", " ">>, <<"m1", " ", "m2", " ">>}}
BuildCalls ==
    {[via |-> "buildTestRequest", baseName |-> n,
      files |-> [object |-> o, oldObject |-> d, request |-> r, message |-> m],
      memory |-> <<>>] :
        n \in {<<"policy", ".allow.", "case">>, <<"policy", ".deny.", "case">>},
        o \in ObjectFiles, d \in ObjectFiles, r \in RequestFiles, m \in MessageFiles}
    \ {c \in [via : {"buildTestRequest"},
              baseName : {<<"policy", ".allow.", "case">>, <<"policy", ".deny.", "case">>},
              files : [object : {Nil}, oldObject : {Nil}, request : {Nil},
                       message : MessageFiles],
              memory : {<<>>}] : TRUE}

(* Inputs of MockAuthorizer.Authorize: a table of at most MaxConfigs        *)
(* configs and the attributes of a query.  The group and the resource are  *)
(* strings of at most one character, "a" or "/", the subresource is empty  *)
(* or "/".                                                                 *)
MaxConfigs == 1
ComponentChoices == {<<>>, <<"a">>, <<"/">>}
AuthorizationMockConfig(group, resource, subresource, namespace, verb, decision) ==
    [Group |-> group, Resource |-> resource, Subresource |-> subresource,
     Namespace |-> namespace, Verb |-> verb, Decision |-> decision]
ConfigChoices ==
    {AuthorizationMockConfig(g, r, s, <<"d">>, v, d) :
        g \in ComponentChoices, r \in ComponentChoices, s \in {<<>>, <<"/">>},
        v \in {<<"get">>}, d \in {"allow", "deny"}}
AttributesChoices ==
    {[APIGroup |-> g, Resource |-> r, Subresource |-> s, Namespace |-> <<"d">>, Verb |-> v] :
        g \in ComponentChoices, r \in ComponentChoices, s \in {<<>>, <<"/">>},
        v \in {<<"get">>, <<"list">>}}
AuthorizeCalls ==
    {[via |-> "Authorize", configs |-> c, attrs |-> a, memory |-> <<>>] :
        c \in UNION {SeqsOfLen(ConfigChoices, n) : n \in 0..MaxConfigs},
        a \in AttributesChoices}

(* Calls with and without an authorizer and a user-info, on a policy that  *)
(* asks the authorizer: direct calls are given a mock authorizer, with an  *)
(* empty table or with one decision, and test cases a list of configs.     *)
UserInfoChoices == {Nil, [isNil |-> FALSE, Name |-> <<"admin">>]}
CheckedConfigs ==
    {AuthorizationMockConfig(<<>>, <<"a">>, <<>>, <<"d">>, <<"get">>, d) : d \in {"allow", "deny"}}
AuthorizerPolicies ==
    {<<"validating",
       ValidatingPolicy(<<>>, <<>>, <<Validation(AuthorizerCheck, <<"m1">>, "")>>)>>,
     <<"mutating",
       MutatingPolicy(<<MatchCondition(AuthorizerCheck)>>, <<JSONPatchMutation("[]")>>)>>}
AuthorizerDirectCases ==
    {[Case(p[1], "direct", p[2], Nil, Given(ObjA), Nil, Nil, Nil, NoExpectation)
         EXCEPT !.auth = a, !.UserInfo = u] :
        p \in AuthorizerPolicies,
        a \in {Nil, NewMockAuthorizerFromConfig(<<>>)}
              \cup {NewMockAuthorizerFromConfig(<<c>>) : c \in CheckedConfigs},
        u \in UserInfoChoices}
AuthorizerTestCases ==
    {[Case(p[1], "test", p[2], Nil, Given(ObjA), Nil, Nil, Nil, NoExpectation)
         EXCEPT !.Authorizer = c, !.UserInfo = u] :
        p \in AuthorizerPolicies,
        c \in UNION {SeqsOfLen(CheckedConfigs, n) : n \in 0..MaxConfigs},
        u \in UserInfoChoices}

(* Inputs of the comparisons of the oracle, called on their own: lists of  *)
(* at most MaxWarnings warnings, annotations under at most two keys, and   *)
(* objects behind distinct pointers, the first and the third deep-equal.   *)
MaxWarnings == 2
WarningLists == UNION {SeqsOfLen({<<"m1">>, <<"m2">>}, n) : n \in 0..MaxWarnings}
AnnotationMaps == UNION {[d -> {<<"x">>, <<"y">>}] : d \in SUBSET {"k1", "k2"}}
OracleMemory == <<ObjA, ObjAB, ObjA>>
WarningsCalls ==
    {[via |-> "checkWarnings", expected |-> e, actual |-> a, memory |-> <<>>] :
        e \in WarningLists, a \in WarningLists}
AuditAnnotationsCalls ==
    {[via |-> "checkAuditAnnotations", expected |-> [AuditAnnotations |-> e],
      actual |-> [AuditAnnotations |-> a], memory |-> <<>>] :
        e \in AnnotationMaps, a \in AnnotationMaps}
MutatedObjectCalls ==
    {[via |-> "checkMutatedObject", expected |-> [Object |-> e], actual |-> [Object |-> a],
      memory |-> OracleMemory] :
        e \in 0..2, a \in 0..3}

---------------------------------------------------------------------------
(* The state machine: one call on the inputs.                              *)

(* Direct calls of EvaluateValidating: every policy of at most MaxExprs    *)
(* expressions, with no binding or a binding that selects every namespace. *)
InitDirectValidating ==
    \E a \in 0..MaxExprs : \E b \in 0..(MaxExprs - a) : \E c \in 0..(MaxExprs - a - b) :
    \E mc \in SeqsOfLen(MatchConditionChoices, a),
       an \in SeqsOfLen(AuditAnnotationChoices, b),
       va \in SeqsOfLen(ValidationChoices, c),
       bd \in {Nil} \cup {Binding(Nil, x) : x \in ActionChoices} :
        tc = Case("validating", "direct", ValidatingPolicy(mc, an, va), bd,
                  Given(ObjA), Nil, Nil, Nil, NoExpectation)

(* Direct calls of EvaluateMutating: every policy of at most MaxExprs      *)
(* expressions, on CREATE, UPDATE, DELETE and with no object at all.       *)
InitDirectMutating ==
    \E a \in 0..MaxExprs : \E b \in 0..(MaxExprs - a) :
    \E mc \in SeqsOfLen(MatchConditionChoices, a),
       mu \in SeqsOfLen(MutationChoices, b),
       o \in ObjectChoices :
        tc = Case("mutating", "direct", MutatingPolicy(mc, mu), Nil, o[1], o[2], Nil, Nil,
                  NoExpectation)

Init ==
    /\ \/ InitDirectValidating
       \/ InitDirectMutating
       \/ tc \in GateValidating \cup GateMutating \cup TestCases
       \/ tc \in SuiteValidatingCases
       \/ tc \in SuiteMutatingCases
       \/ tc \in AuthorizerDirectCases
       \/ tc \in AuthorizerTestCases
       \/ tc \in AuthorizeCalls
       \/ tc \in ConvertCalls
       \/ tc \in InferCalls
       \/ tc \in BuildCalls
       \/ tc \in MainCalls
       \/ tc \in MergeCalls
       \/ tc \in ReporterRuns
       \/ tc \in WarningsCalls
       \/ tc \in AuditAnnotationsCalls
       \/ tc \in MutatedObjectCalls
    /\ heap = tc.memory
    /\ pc = "ready"
    /\ out = Nil
    /\ rep = IF tc.via = "Reporter" THEN SetFormat(New, tc.format) ELSE Nil
    /\ calls = IF tc.via = "Reporter" THEN NoCalls ELSE Nil

Return(op, r) ==
    /\ out' = [op |-> op] @@ r
    /\ heap' = r.heap
    /\ pc' = "done"
    /\ UNCHANGED <<tc, rep, calls>>

CallEvaluateValidating ==
    /\ pc = "ready"
    /\ tc.via = "direct"
    /\ tc.kind = "validating"
    /\ Return("EvaluateValidating",
              EvaluateValidating(tc.policy, tc.binding, tc.Request, tc.Object, tc.OldObject,
                                 tc.Params, tc.NamespaceObj, tc.auth, tc.UserInfo, heap))

CallEvaluateMutating ==
    /\ pc = "ready"
    /\ tc.via = "direct"
    /\ tc.kind = "mutating"
    /\ Return("EvaluateMutating",
              EvaluateMutating(tc.policy, tc.binding, tc.Request, tc.Object, tc.OldObject,
                               tc.Params, tc.NamespaceObj, tc.auth, tc.UserInfo, heap))

CallEvaluateTest ==
    /\ pc = "ready"
    /\ tc.via = "test"
    /\ Return("EvaluateTest",
              EvaluateTest(IF tc.kind = "mutating" THEN tc.policy ELSE Nil,
                           IF tc.kind = "mutating" THEN tc.binding ELSE Nil,
                           IF tc.kind = "validating" THEN tc.policy ELSE Nil,
                           IF tc.kind = "validating" THEN tc.binding ELSE Nil,
                           tc, heap))

CallCheckWarnings ==
    /\ pc = "ready"
    /\ tc.via = "checkWarnings"
    /\ Return("checkWarnings",
              [status |-> "result", result |-> checkWarnings(tc.expected, tc.actual),
               heap |-> heap])

CallCheckAuditAnnotations ==
    /\ pc = "ready"
    /\ tc.via = "checkAuditAnnotations"
    /\ Return("checkAuditAnnotations",
              [status |-> "result", result |-> checkAuditAnnotations(tc.expected, tc.actual),
               heap |-> heap])

CallCheckMutatedObject ==
    /\ pc = "ready"
    /\ tc.via = "checkMutatedObject"
    /\ Return("checkMutatedObject",
              [status |-> "result",
               result |-> checkMutatedObject(tc.expected, tc.actual, heap),
               heap |-> heap])

CallAuthorize ==
    /\ pc = "ready"
    /\ tc.via = "Authorize"
    /\ Return("Authorize",
              [status |-> "result",
               result |-> Authorize(NewMockAuthorizerFromConfig(tc.configs), tc.attrs),
               heap |-> heap])

CallConvertAdmissionRequest ==
    /\ pc = "ready"
    /\ tc.via = "convertAdmissionRequest"
    /\ Return("convertAdmissionRequest",
              [status |-> "result", result |-> convertAdmissionRequest(tc.Request),
               err |-> NoErr, heap |-> heap])

CallInferOperation ==
    /\ pc = "ready"
    /\ tc.via = "InferOperation"
    /\ LET Returns(r) ==
               Return("InferOperation",
                      [status |-> IF r.err = NoErr THEN "result" ELSE "error",
                       result |-> r.op, err |-> r.err, heap |-> heap])
       IN  Returns(InferOperation(tc.hasObject, tc.hasOldObject, tc.requestOpStr))

CallBuildTestRequest ==
    /\ pc = "ready"
    /\ tc.via = "buildTestRequest"
    /\ Return("buildTestRequest",
              [status |-> "result",
               result |-> buildTestRequest(tc.baseName, collectTestFiles(tc.files), tc.files),
               heap |-> heap])

CallMergeObjects ==
    /\ pc = "ready"
    /\ tc.via = "mergeObjects"
    /\ Return("mergeObjects",
              [status |-> "result", result |-> mergeObjects(tc.dst, tc.src), heap |-> heap])

CallMain ==
    /\ pc = "ready"
    /\ tc.via = "main"
    /\ Return("main", [status |-> "exit", code |-> main(tc.args, tc.evaluatorErr),
                       heap |-> heap])

(* The calls of a Reporter, in any order: at most MaxTests tests started   *)
(* and at most MaxTests reported, then Summary.                            *)
Reporting == pc = "ready" /\ tc.via = "Reporter"

CallStartSuite ==
    /\ Reporting
    /\ \E s \in SuiteNames : rep' = StartSuite(rep, s)
    /\ rep' # rep
    /\ UNCHANGED <<tc, heap, pc, out, calls>>

CallStartTest ==
    /\ Reporting
    /\ rep.totalTests < MaxTests
    /\ \E s \in SuiteNames, t \in TestNames :
          /\ rep' = StartTest(rep, s, t)
          /\ calls' = [calls EXCEPT !.starts[t] = @ + 1]
    /\ UNCHANGED <<tc, heap, pc, out>>

CallReportPass ==
    /\ Reporting
    /\ rep.passedTests + rep.failedTests < MaxTests
    /\ \E s \in SuiteNames, t \in TestNames :
          /\ rep' = ReportPass(rep, s, t)
          /\ calls' = [calls EXCEPT !.passes[t] = @ + 1]
    /\ UNCHANGED <<tc, heap, pc, out>>

CallReportFail ==
    /\ Reporting
    /\ rep.passedTests + rep.failedTests < MaxTests
    /\ \E s \in SuiteNames, t \in TestNames :
          /\ rep' = ReportFail(rep, s, t, <<"m1", " ">>)
          /\ calls' = [calls EXCEPT !.fails[t] = @ + 1]
    /\ UNCHANGED <<tc, heap, pc, out>>

CallReportResult ==
    /\ Reporting
    /\ rep.passedTests + rep.failedTests < MaxTests
    /\ \E s \in SuiteNames, t \in TestNames, result \in TestResults :
          /\ rep' = ReportResult(rep, s, t, result)
          /\ calls' = IF result.Passed THEN [calls EXCEPT !.passes[t] = @ + 1]
                      ELSE [calls EXCEPT !.fails[t] = @ + 1]
    /\ UNCHANGED <<tc, heap, pc, out>>

CallSummary ==
    /\ Reporting
    /\ rep' = Summary(rep).r
    /\ out' = [op |-> "Summary", status |-> "result", err |-> Summary(rep).err]
    /\ pc' = "done"
    /\ UNCHANGED <<tc, heap, calls>>

Next ==
    \/ CallEvaluateValidating
    \/ CallEvaluateMutating
    \/ CallEvaluateTest
    \/ CallCheckWarnings
    \/ CallCheckAuditAnnotations
    \/ CallCheckMutatedObject
    \/ CallAuthorize
    \/ CallConvertAdmissionRequest
    \/ CallInferOperation
    \/ CallBuildTestRequest
    \/ CallMergeObjects
    \/ CallMain
    \/ CallStartSuite
    \/ CallStartTest
    \/ CallReportPass
    \/ CallReportFail
    \/ CallReportResult
    \/ CallSummary

Spec == Init /\ [][Next]_vars

---------------------------------------------------------------------------
(* What the claims speak of.                                               *)

Returned(op) == pc = "done" /\ out.op = op /\ out.status = "result"

(* The bare allow: allowed, and nothing else.                              *)
AllowOnly == EvaluationResult(TRUE, <<>>, <<>>, 0, <<>>)

(* The first validation action of the call's binding, read off the inputs: *)
(* "" when there is no binding or no action.                               *)
FirstAction ==
    IF tc.binding.isNil THEN ""
    ELSE IF tc.binding.ValidationActions = <<>> THEN ""
    ELSE Head(tc.binding.ValidationActions)

(* The namespace selector of the call's binding is one that parses.        *)
SelectorParses ==
    \/ tc.binding.isNil
    \/ tc.binding.MatchResources.isNil
    \/ tc.binding.MatchResources.NamespaceSelector.isNil
    \/ tc.binding.MatchResources.NamespaceSelector.valid

(* The binding carries a non-empty selector, a namespace object is given   *)
(* and its labels do not satisfy the selector.                             *)
SelectorExcludes ==
    /\ ~tc.binding.isNil
    /\ ~tc.binding.MatchResources.isNil
    /\ ~tc.binding.MatchResources.NamespaceSelector.isNil
    /\ DOMAIN tc.binding.MatchResources.NamespaceSelector.MatchLabels # {}
    /\ tc.NamespaceObj # 0
    /\ LET want == tc.binding.MatchResources.NamespaceSelector.MatchLabels
           have == GetLabels(tc.memory[tc.NamespaceObj])
       IN  \E k \in DOMAIN want : k \notin DOMAIN have \/ have[k] # want[k]

(* Match condition i is the first one that is false, those before it true. *)
FirstFalseCondition(i) ==
    /\ i \in 1..Len(tc.policy.MatchConditions)
    /\ tc.policy.MatchConditions[i].Expression = "false"
    /\ \A j \in 1..(i - 1) : tc.policy.MatchConditions[j].Expression = "true"

(* The evaluation reaches the match conditions and they all pass.          *)
ConditionsPass ==
    /\ SelectorParses
    /\ ~SelectorExcludes
    /\ tc.kind = "mutating" => (tc.Object # 0 \/ tc.OldObject # 0)
    /\ \A j \in 1..Len(tc.policy.MatchConditions) :
           tc.policy.MatchConditions[j].Expression = "true"

(* Validation i is the first one that is false, those before it true.      *)
FirstFalseValidation(i) ==
    /\ i \in 1..Len(tc.policy.Validations)
    /\ tc.policy.Validations[i].Expression = "false"
    /\ \A j \in 1..(i - 1) : tc.policy.Validations[j].Expression = "true"

(* The call of EvaluateValidating on the inputs with another binding or    *)
(* another policy.                                                         *)
ValidatingWith(policy, binding) ==
    EvaluateValidating(policy, binding, tc.Request, tc.Object, tc.OldObject, tc.Params,
                       tc.NamespaceObj, tc.auth, tc.UserInfo, tc.memory)

WithActions(actions) == [tc.binding EXCEPT !.ValidationActions = actions]

(* The variable bag of the call.                                           *)
ValidatingBag ==
    setupValidatingVars(convertAdmissionRequest(tc.Request), tc.Object, tc.OldObject,
                        tc.Params, tc.NamespaceObj, tc.auth, tc.UserInfo)

(* The trace entries of one stage.                                         *)
StageOf(trace, stage) ==
    LET OfStage(e) == e.stage = stage IN SelectSeq(trace, OfStage)

---------------------------------------------------------------------------
(* C1: when a validation returns false, the first entry of the binding's   *)
(* validationActions alone decides the result: Warn allows with the        *)
(* message as the only warning and no message, Audit allows with neither,  *)
(* Deny, no action or no binding denies with the message and no warning;   *)
(* later entries change nothing, and [Warn] in place of [Deny] yields the  *)
(* denial message as warnings[0].                                          *)
C1_FirstActionDecides ==
    (Returned("EvaluateValidating") /\ \E i \in 1..Len(tc.policy.Validations) :
                                           ConditionsPass /\ FirstFalseValidation(i))
    =>  LET r == out.result
            denied == ValidatingWith(tc.policy, Nil).result
        IN  /\ ~denied.Allowed /\ denied.Message # <<>> /\ denied.Warnings = <<>>
            /\ FirstAction = "Warn" =>
                   r.Allowed /\ r.Warnings = <<denied.Message>> /\ r.Message = <<>>
            /\ FirstAction = "Audit" =>
                   r.Allowed /\ r.Warnings = <<>> /\ r.Message = <<>>
            /\ FirstAction \in {"Deny", ""} => r = denied
            /\ ~tc.binding.isNil =>
                   /\ Len(tc.binding.ValidationActions) > 1 =>
                          r = ValidatingWith(tc.policy,
                                  WithActions(<<Head(tc.binding.ValidationActions)>>)).result
                   /\ tc.binding.ValidationActions = <<"Deny">> =>
                          LET warned == ValidatingWith(tc.policy, WithActions(<<"Warn">>)).result
                          IN  warned.Allowed /\ warned.Warnings = <<r.Message>>

C1_Witness ==
    /\ Returned("EvaluateValidating")
    /\ FirstFalseValidation(1)
    /\ ~tc.binding.isNil
    /\ tc.binding.ValidationActions = <<"Warn", "Audit">>
    /\ out.result.Allowed
    /\ out.result.Warnings = << <<"m1">> >>

(* C2: when a match condition evaluates to false, EvaluateValidating and   *)
(* EvaluateMutating return the bare allow, and nothing but the match       *)
(* conditions up to that one has been evaluated.                           *)
C2_GateShortCircuit ==
    \A i \in 1..MaxExprs + 1 :
        ( /\ pc = "done"
          /\ out.op \in {"EvaluateValidating", "EvaluateMutating"}
          /\ SelectorParses /\ ~SelectorExcludes
          /\ tc.kind = "mutating" => (tc.Object # 0 \/ tc.OldObject # 0)
          /\ FirstFalseCondition(i) )
        =>  /\ out.status = "result"
            /\ out.result = AllowOnly
            /\ Len(out.trace) = i
            /\ \A k \in 1..i : out.trace[k].stage = "matchCondition" /\ out.trace[k].index = k

C2_Witness ==
    /\ Returned("EvaluateValidating")
    /\ FirstFalseCondition(1)
    /\ \E k \in 1..Len(tc.policy.Validations) : tc.policy.Validations[k].Expression = "bad("
    /\ out.result = AllowOnly

MessageByPrecedence(validation) ==
    LET value == CelEval(validation.MessageExpression, ValidatingBag, tc.memory)
    IN  IF /\ validation.MessageExpression # ""
           /\ value.ok
           /\ value.val.kind = "string"
           /\ \E k \in 1..Len(value.val.s) : value.val.s[k] # " "
        THEN value.val.s
        ELSE IF validation.Message # <<>>
        THEN validation.Message
        ELSE <<"validation failed: ", validation.Expression>>

C4_MessagePrecedence ==
    \A i \in 1..MaxExprs + 1 :
        (Returned("EvaluateValidating") /\ ConditionsPass /\ FirstFalseValidation(i))
        =>  LET message == MessageByPrecedence(tc.policy.Validations[i])
            IN  /\ FirstAction = "Warn" => out.result.Warnings = <<message>>
                /\ FirstAction \in {"Deny", ""} => out.result.Message = message

C4_Witness ==
    /\ Returned("EvaluateValidating")
    /\ FirstFalseValidation(1)
    /\ tc.policy.Validations[1].MessageExpression = "' '"
    /\ tc.policy.Validations[1].Message = <<"m2">>
    /\ out.result.Message = <<"m2">>

(* C5: once the match conditions pass, the result's auditAnnotations has a *)
(* key exactly when an audit annotation with that key evaluated to a       *)
(* non-empty string; the map is the same whether the validations pass or   *)
(* one fails under Deny, Warn or Audit; allowed is what it is for the      *)
(* policy without its audit annotations.                                   *)
NonEmptyString(annotation) ==
    LET value == CelEval(annotation.ValueExpression, ValidatingBag, tc.memory)
    IN  value.ok /\ value.val.kind = "string" /\ Len(value.val.s) > 0

C5_AuditAnnotationsAttached ==
    (Returned("EvaluateValidating") /\ ConditionsPass)
    =>  LET annotations == tc.policy.AuditAnnotations
            recorded == {i \in 1..Len(annotations) : NonEmptyString(annotations[i])}
            attached == out.result.AuditAnnotations
            bare == ValidatingWith([tc.policy EXCEPT !.AuditAnnotations = <<>>], tc.binding)
            passing == ValidatingWith([tc.policy EXCEPT !.Validations = <<>>], tc.binding)
        IN  /\ DOMAIN attached = {annotations[i].Key : i \in recorded}
            /\ \A k \in DOMAIN attached :
                   \E i \in recorded :
                       /\ annotations[i].Key = k
                       /\ attached[k] =
                              CelEval(annotations[i].ValueExpression, ValidatingBag, tc.memory).val.s
            /\ passing.status = "result"
            /\ passing.result = EvaluationResult(TRUE, <<>>, <<>>, 0, attached)
            /\ bare.status = "result"
            /\ bare.result.Allowed = out.result.Allowed

C5_Witness ==
    /\ Returned("EvaluateValidating")
    /\ Len(tc.policy.AuditAnnotations) = 2
    /\ tc.policy.AuditAnnotations[1] = AuditAnnotation("k2", "'y'")
    /\ tc.policy.AuditAnnotations[2] = AuditAnnotation("k1", "''")
    /\ FirstFalseValidation(1)
    /\ FirstAction = "Deny"
    /\ ~out.result.Allowed
    /\ DOMAIN out.result.AuditAnnotations = {"k2"}

(* C6: with a namespace selector that parses and an object to evaluate,    *)
(* EvaluateValidating and EvaluateMutating skip the policy, returning the  *)
(* bare allow with no expression evaluated, exactly when the binding has a *)
(* non-empty selector, a namespace object is given and its labels do not   *)
(* satisfy the selector; otherwise the first match condition is evaluated. *)
C6_NamespaceSelectorGate ==
    ( /\ pc = "done"
      /\ out.op \in {"EvaluateValidating", "EvaluateMutating"}
      /\ SelectorParses
      /\ tc.kind = "mutating" => (tc.Object # 0 \/ tc.OldObject # 0) )
    =>  /\ SelectorExcludes =>
               out.status = "result" /\ out.result = AllowOnly /\ out.trace = <<>>
        /\ (~SelectorExcludes /\ Len(tc.policy.MatchConditions) > 0) =>
               /\ out.trace # <<>>
               /\ out.trace[1].stage = "matchCondition"
               /\ out.trace[1].index = 1

C6_Witness ==
    /\ Returned("EvaluateValidating")
    /\ SelectorExcludes
    /\ Len(tc.policy.MatchConditions) = 1
    /\ tc.policy.MatchConditions[1].Expression = "bad("
    /\ out.result = AllowOnly
    /\ out.trace = <<>>

(* The policy of the call declares no validation, or no mutation.          *)
NothingDeclared ==
    IF tc.kind = "validating"
    THEN tc.policy.Validations = <<>>
    ELSE tc.policy.Mutations = <<>>

(* C7, as the specification states it: a policy with no validations and no *)
(* mutations whose match conditions all pass yields allowed=true with no   *)
(* patched object, for validating and mutating policies alike.             *)
C7_AllowPreservation_AsStated ==
    ( /\ pc = "done"
      /\ out.op \in {"EvaluateValidating", "EvaluateMutating"}
      /\ out.status = "result"
      /\ ConditionsPass
      /\ NothingDeclared )
    =>  out.result.Allowed /\ out.result.PatchedObject = 0

(* C7, amended: such a policy yields allowed=true with no message and no   *)
(* warning; a validating policy yields no patched object, a mutating       *)
(* policy yields a new object deep-equal to the input object, and none     *)
(* only when there is no input object.                                     *)
C7_AllowPreservation ==
    ( /\ pc = "done"
      /\ out.op \in {"EvaluateValidating", "EvaluateMutating"}
      /\ out.status = "result"
      /\ ConditionsPass
      /\ NothingDeclared )
    =>  /\ out.result.Allowed
        /\ out.result.Message = <<>>
        /\ out.result.Warnings = <<>>
        /\ tc.kind = "validating" => out.result.PatchedObject = 0
        /\ tc.kind = "mutating" =>
               IF tc.Object = 0
               THEN out.result.PatchedObject = 0
               ELSE /\ out.result.PatchedObject \in (DOMAIN heap) \ (DOMAIN tc.memory)
                    /\ heap[out.result.PatchedObject] = tc.memory[tc.Object]

C7_Witness ==
    /\ Returned("EvaluateMutating")
    /\ Len(tc.policy.MatchConditions) > 0
    /\ ConditionsPass
    /\ tc.policy.Mutations = <<>>
    /\ tc.Object # 0
    /\ out.result.PatchedObject # 0
    /\ heap[out.result.PatchedObject] = tc.memory[tc.Object]

(* C8: after a call of EvaluateValidating, EvaluateMutating or             *)
(* EvaluateTest, however it ends, every object the caller passed in, the   *)
(* object and the oldObject among them, is what it was before the call.    *)
C8_InputImmutability ==
    (pc = "done" /\ out.op \in {"EvaluateValidating", "EvaluateMutating", "EvaluateTest"})
    =>  /\ \A r \in DOMAIN tc.memory : r \in DOMAIN heap /\ heap[r] = tc.memory[r]
        /\ tc.Object # 0 => heap[tc.Object] = tc.memory[tc.Object]
        /\ tc.OldObject # 0 => heap[tc.OldObject] = tc.memory[tc.OldObject]

C8_Witness ==
    /\ Returned("EvaluateMutating")
    /\ tc.Object # 0
    /\ tc.OldObject # 0
    /\ \E i, j \in 1..Len(tc.policy.Mutations) :
           /\ tc.policy.Mutations[i].PatchType = "JSONPatch"
           /\ tc.policy.Mutations[j].PatchType = "ApplyConfiguration"
    /\ Len(StageOf(out.trace, "mutation")) = Len(tc.policy.Mutations)
    /\ heap[out.result.PatchedObject] # tc.memory[tc.Object]
    /\ heap[tc.Object] = tc.memory[tc.Object]

(* C9: when every mutation of a mutating policy yields the empty JSONPatch *)
(* sequence, the patched object is deep-equal to the input object.         *)
C9_EmptyPatchRoundTrip ==
    ( /\ Returned("EvaluateMutating")
      /\ ConditionsPass
      /\ Len(tc.policy.Mutations) > 0
      /\ \A i \in 1..Len(tc.policy.Mutations) :
             tc.policy.Mutations[i] = JSONPatchMutation("[]") )
    =>  IF tc.Object = 0
        THEN out.result.PatchedObject = 0
        ELSE /\ out.result.PatchedObject \in DOMAIN heap
             /\ heap[out.result.PatchedObject] = tc.memory[tc.Object]

C9_Witness ==
    /\ Returned("EvaluateMutating")
    /\ tc.policy.Mutations = <<JSONPatchMutation("[]"), JSONPatchMutation("[]")>>
    /\ tc.Object # 0
    /\ tc.memory[tc.Object] = ObjAB
    /\ out.result.PatchedObject # 0
    /\ heap[out.result.PatchedObject] = ObjAB

(* C10: EvaluateTest on a test case with a load error fails with a message *)
(* starting "test loading error: " and evaluates nothing; on a fatal error *)
(* of the evaluation, a missing policy included, it fails with a message   *)
(* starting "evaluation error: " and compares no expectation field; only   *)
(* otherwise does it compare the result with the expectation.              *)
C10_FailureKindsApart ==
    (pc = "done" /\ out.op = "EvaluateTest" /\ out.status = "result")
    =>  LET eval == evaluatePolicy(IF tc.kind = "mutating" THEN tc.policy ELSE Nil,
                                   IF tc.kind = "mutating" THEN tc.binding ELSE Nil,
                                   IF tc.kind = "validating" THEN tc.policy ELSE Nil,
                                   IF tc.kind = "validating" THEN tc.binding ELSE Nil,
                                   tc, tc.memory)
            r == out.result
        IN  /\ tc.Error # NoErr =>
                   /\ ~r.Passed
                   /\ r.Message = <<"test loading error: ">> \o tc.Error
                   /\ ~out.evaluated
                   /\ out.trace = <<>>
                   /\ r.compared = <<>>
            /\ (tc.Error = NoErr /\ eval.status = "error") =>
                   /\ ~r.Passed
                   /\ r.Message = <<"evaluation error: ">> \o eval.err
                   /\ r.compared = <<>>
            /\ (tc.Error = NoErr /\ tc.kind = "none") =>
                   r.Message = <<"evaluation error: ", "no policy provided">>
            /\ (tc.Error = NoErr /\ eval.status = "result") =>
                   /\ out.evaluated
                   /\ r.compared # <<>>
                   /\ r.compared[1] = "allowed"
                   /\ r.Message # <<>> =>
                          r.Message[1] \notin {"test loading error: ", "evaluation error: "}

C10_Witness ==
    /\ pc = "done"
    /\ out.op = "EvaluateTest"
    /\ tc.kind = "validating"
    /\ tc.Error = NoErr
    /\ ~tc.ExpectAllowed
    /\ Len(tc.policy.Validations) = 1
    /\ tc.policy.Validations[1].Expression = "bad("
    /\ ~out.result.Passed
    /\ out.result.Message[1] = "evaluation error: "
    /\ out.result.compared = <<>>

(* The value of a trace entry's expression is malformed for its stage: a   *)
(* JSONPatch mutation whose value is not a sequence of JSONPatch values.   *)
NotAPatchSequence(e) ==
    /\ e.stage = "mutation"
    /\ tc.policy.Mutations[e.index].PatchType = "JSONPatch"
    /\ e.outcome # "error"
    /\ \/ e.outcome # "list"
       \/ e.expression = "[1]"

(* An ApplyConfiguration mutation whose value is not an Object.            *)
NotAnObject(e) ==
    /\ e.stage = "mutation"
    /\ tc.policy.Mutations[e.index].PatchType = "ApplyConfiguration"
    /\ e.outcome \notin {"error", "object"}

(* A match condition or a validation whose value is not a boolean.         *)
NotABoolean(e) ==
    /\ e.stage \in {"matchCondition", "validation"}
    /\ e.outcome \notin {"error", "true", "false"}

(* The first mutation removes a field the object does not have.            *)
CannotApply(e) ==
    /\ e.stage = "mutation"
    /\ e.index = 1
    /\ e.expression = "[JSONPatch{op: 'remove', path: '/b'}]"
    /\ tc.Object # 0
    /\ "b" \notin DOMAIN tc.memory[tc.Object].m

(* C11, as the specification states it: a JSONPatch mutation whose value   *)
(* is not a sequence of JSONPatch values, an ApplyConfiguration mutation   *)
(* whose value is not an Object, a match condition or validation that is   *)
(* not a boolean, and a JSONPatch that cannot be applied each end the      *)
(* evaluation with a fatal error, never with a result.                     *)
C11_MalformedIsFatal_AsStated ==
    (pc = "done" /\ out.op \in {"EvaluateValidating", "EvaluateMutating"})
    =>  \A k \in 1..Len(out.trace) :
            (\/ NotAPatchSequence(out.trace[k])
             \/ NotAnObject(out.trace[k])
             \/ NotABoolean(out.trace[k])
             \/ CannotApply(out.trace[k]))
            => out.status = "error"

---------------------------------------------------------------------------
(* What the claims about the test oracle speak of.                         *)

(* The evaluation EvaluateTest asks for, on the inputs of the call.        *)
PolicyOutcome ==
    evaluatePolicy(IF tc.kind = "mutating" THEN tc.policy ELSE Nil,
                   IF tc.kind = "mutating" THEN tc.binding ELSE Nil,
                   IF tc.kind = "validating" THEN tc.policy ELSE Nil,
                   IF tc.kind = "validating" THEN tc.binding ELSE Nil,
                   tc, tc.memory)

(* EvaluateTest has returned from a comparison: the test case loaded and   *)
(* the evaluation gave a result.                                           *)
Compared ==
    /\ pc = "done"
    /\ out.op = "EvaluateTest"
    /\ out.status = "result"
    /\ tc.Error = NoErr
    /\ PolicyOutcome.status = "result"

(* The expectation of the test case and the outcome compared with it.      *)
TestExpectation ==
    [Allowed |-> tc.ExpectAllowed, Message |-> tc.ExpectMessage,
     Object |-> tc.ExpectedObject, Warnings |-> tc.ExpectWarnings,
     AuditAnnotations |-> tc.ExpectAuditAnnotations]

TestOutcome ==
    [Allowed |-> PolicyOutcome.result.Allowed,
     Message |-> PolicyOutcome.result.Message,
     Warnings |-> PolicyOutcome.result.Warnings,
     AuditAnnotations |-> PolicyOutcome.result.AuditAnnotations,
     Object |-> IF PolicyOutcome.result.PatchedObject # 0
                THEN PolicyOutcome.result.PatchedObject
                ELSE tc.Object]

(* The failure message of each rule of the oracle, in the order allowed,   *)
(* auditAnnotations, warnings, message, expectedObject; <<>> for a rule    *)
(* that does not fail.                                                     *)
MessageOf(chk) == IF chk.isNil THEN <<>> ELSE chk.Message

RuleMessages ==
    << IF TestOutcome.Allowed # TestExpectation.Allowed
       THEN <<"expected allowed=", ToString(TestExpectation.Allowed),
              ", got allowed=", ToString(TestOutcome.Allowed)>>
       ELSE <<>>,
       MessageOf(checkAuditAnnotations(TestExpectation, TestOutcome)),
       MessageOf(checkWarnings(TestExpectation.Warnings, TestOutcome.Warnings)),
       IF TestExpectation.Message # <<>> /\ TestOutcome.Message # TestExpectation.Message
       THEN <<"message does not match expected:\n">>
       ELSE <<>>,
       MessageOf(checkMutatedObject(TestExpectation, TestOutcome, PolicyOutcome.heap)) >>

FailingRules == {i \in 1..5 : RuleMessages[i] # <<>>}

(* C12: the oracle applies its rules in the order allowed,                 *)
(* auditAnnotations, warnings, message, expectedObject: the test passes    *)
(* iff no rule fails, and the message of a failed test is that of the      *)
(* first rule that fails in this order.                                    *)
C12_FirstFailingRule ==
    Compared
    =>  /\ out.result.Passed <=> FailingRules = {}
        /\ FailingRules # {} =>
               out.result.Message =
                   RuleMessages[CHOOSE i \in FailingRules : \A j \in FailingRules : i <= j]
        /\ (TestOutcome.Allowed # TestExpectation.Allowed) =>
               out.result.Message =
                   <<"expected allowed=", ToString(tc.ExpectAllowed), ", got allowed=",
                     ToString(~tc.ExpectAllowed)>>

C12_Witness ==
    /\ Compared
    /\ FailingRules = {2, 3, 4}
    /\ ~out.result.Passed
    /\ out.result.Message = <<"audit annotations do not match expected:\n">>

(* C13: the audit-annotation rule is a subset match: it passes iff every   *)
(* key of the expected annotations is among the actual ones with exactly   *)
(* the same value; keys only the actual annotations have never make it     *)
(* fail.                                                                   *)
C13_AnnotationSubsetMatch ==
    (pc = "done" /\ out.op = "checkAuditAnnotations")
    =>  LET expected == tc.expected.AuditAnnotations
            actual == tc.actual.AuditAnnotations
        IN  out.result.isNil <=>
                \A k \in DOMAIN expected : k \in DOMAIN actual /\ actual[k] = expected[k]

C13_Witness ==
    /\ pc = "done"
    /\ out.op = "checkAuditAnnotations"
    /\ tc.expected.AuditAnnotations = [k \in {"k1"} |-> <<"x">>]
    /\ DOMAIN tc.actual.AuditAnnotations = {"k1", "k2"}
    /\ out.result.isNil

(* C14 as stated: the warnings rule is full-sequence equality: it passes   *)
(* iff the warnings of the result and of the expectation have the same     *)
(* length and the same string at every index.                              *)
C14_WarningsEquality_AsStated ==
    (pc = "done" /\ out.op = "checkWarnings")
    =>  (out.result.isNil <=>
            /\ Len(tc.actual) = Len(tc.expected)
            /\ \A i \in 1..Len(tc.expected) : tc.actual[i] = tc.expected[i])

(* C14: when the expectation declares warnings the rule is full-sequence   *)
(* equality, any difference in length, order or content failing it; when   *)
(* the expectation declares none, the rule passes whatever the warnings of *)
(* the result are.                                                         *)
C14_WarningsEquality ==
    (pc = "done" /\ out.op = "checkWarnings")
    =>  IF Len(tc.expected) = 0
        THEN out.result.isNil
        ELSE out.result.isNil <=>
                 /\ Len(tc.actual) = Len(tc.expected)
                 /\ \A i \in 1..Len(tc.expected) : tc.actual[i] = tc.expected[i]

C14_Witness ==
    /\ pc = "done"
    /\ out.op = "checkWarnings"
    /\ tc.expected = << <<"m1">>, <<"m2">> >>
    /\ tc.actual = << <<"m2">>, <<"m1">> >>
    /\ ~out.result.isNil

(* The comparison of a test reached the object rule: the four rules before *)
(* it passed.                                                              *)
ObjectCompared ==
    /\ Compared
    /\ Len(out.result.compared) = 5

ExpectsAction ==
    /\ "Name" \in DOMAIN tc
    /\ \/ \E i \in 1..Len(tc.Name) : tc.Name[i] \in {".deny.", ".warn.", ".audit."}
       \/ tc.kind = "mutating" /\ tc.ExpectedObject # 0

(* C16 as stated: a test that expects the policy to take action, when the  *)
(* policy is skipped because a match condition is false, is reported as    *)
(* failed.                                                                 *)
C16_SkippedPolicyFails_AsStated ==
    (Compared /\ ExpectsAction /\ \E i \in 1..Len(tc.policy.MatchConditions) :
                                      FirstFalseCondition(i))
    =>  ~out.result.Passed

(* Config i of the table records the very tuple that is queried.           *)
SameTuple(i) ==
    /\ tc.configs[i].Group = tc.attrs.APIGroup
    /\ tc.configs[i].Resource = tc.attrs.Resource
    /\ tc.configs[i].Subresource = tc.attrs.Subresource
    /\ tc.configs[i].Namespace = tc.attrs.Namespace
    /\ tc.configs[i].Verb = tc.attrs.Verb

(* C17 as stated: Authorize returns a recorded decision, with the reason   *)
(* "mock decision", only when all five components of the queried tuple     *)
(* equal those of a recorded tuple, and then it is the decision recorded   *)
(* for that tuple; for a queried tuple that differs from every recorded    *)
(* one in some component it returns NoOpinion, whatever the strings are.   *)
C17_ExactTupleMatch_AsStated ==
    (pc = "done" /\ out.op = "Authorize")
    =>  IF \E i \in 1..Len(tc.configs) : SameTuple(i)
        THEN /\ out.result.reason = "mock decision"
             /\ \E i \in 1..Len(tc.configs) :
                    /\ SameTuple(i)
                    /\ out.result.decision =
                           IF tc.configs[i].Decision = "allow" THEN "DecisionAllow"
                           ELSE "DecisionDeny"
        ELSE out.result.decision = "DecisionNoOpinion"

(* The call is given both a mock authorizer and a user-info: to a direct   *)
(* call as arguments, to EvaluateTest as the configs and the user-info of  *)
(* the test case.                                                          *)
AuthorizerSupplied ==
    /\ ~tc.UserInfo.isNil
    /\ IF tc.via = "test" THEN Len(tc.Authorizer) > 0 ELSE ~tc.auth.isNil

(* What the evaluation of the call evaluated.                              *)
EvaluationTrace == IF out.op = "EvaluateTest" THEN PolicyOutcome.trace ELSE out.trace

(* C18: the variable authorizer is bound in a validating and in a mutating *)
(* evaluation iff both a mock authorizer and a user-info are supplied: an  *)
(* expression that reads it gets its value then, and in every other        *)
(* combination finds no such variable.                                     *)
C18_AuthorizerBoundIffBoth ==
    ( /\ pc = "done"
      /\ out.op \in {"EvaluateValidating", "EvaluateMutating", "EvaluateTest"}
      /\ tc.kind \in {"validating", "mutating"}
      /\ tc.Error = NoErr )
    =>  \A k \in 1..Len(EvaluationTrace) :
            EvaluationTrace[k].expression = AuthorizerCheck
            =>  (EvaluationTrace[k].outcome # "error" <=> AuthorizerSupplied)

C18_Witness ==
    /\ pc = "done"
    /\ out.op = "EvaluateValidating"
    /\ ~tc.auth.isNil
    /\ tc.UserInfo.isNil
    /\ out.status = "error"
    /\ \E k \in 1..Len(out.trace) :
           out.trace[k].expression = AuthorizerCheck /\ out.trace[k].outcome = "error"

(* The userInfo of the mapping convertAdmissionRequest returned, the       *)
(* empty mapping when it has none.                                         *)
ConvertedUserInfo ==
    IF "userInfo" \in DOMAIN out.result.m THEN out.result.m["userInfo"].m ELSE <<>>

(* C19 as stated: in the mapping convertAdmissionRequest produces, each    *)
(* scalar field of the request (uid, subResource, name, namespace,         *)
(* operation, and in userInfo: username, uid, groups, extra) is present    *)
(* with the request's value iff that value is not empty.                   *)
C19_FieldsIffNonEmpty_AsStated ==
    (pc = "done" /\ out.op = "convertAdmissionRequest" /\ ~tc.Request.isNil)
    =>  /\ \A f \in RequestFields :
               /\ f \in DOMAIN out.result.m <=> tc.Request[f] # ""
               /\ f \in DOMAIN out.result.m => out.result.m[f] = S(tc.Request[f])
        /\ "username" \in DOMAIN ConvertedUserInfo <=> tc.Request.UserInfo.Username # ""
        /\ "username" \in DOMAIN ConvertedUserInfo
               => ConvertedUserInfo["username"] = S(tc.Request.UserInfo.Username)
        /\ "uid" \in DOMAIN ConvertedUserInfo <=> tc.Request.UserInfo.UID # ""
        /\ "uid" \in DOMAIN ConvertedUserInfo
               => ConvertedUserInfo["uid"] = S(tc.Request.UserInfo.UID)
        /\ "groups" \in DOMAIN ConvertedUserInfo <=> Len(tc.Request.UserInfo.Groups) > 0
        /\ "groups" \in DOMAIN ConvertedUserInfo
               => ConvertedUserInfo["groups"] = L(tc.Request.UserInfo.Groups)
        /\ "extra" \in DOMAIN ConvertedUserInfo <=> DOMAIN tc.Request.UserInfo.Extra # {}
        /\ "extra" \in DOMAIN ConvertedUserInfo
               => \A k \in DOMAIN tc.Request.UserInfo.Extra :
                      ConvertedUserInfo["extra"].m[k] = L(tc.Request.UserInfo.Extra[k])

(* C20: InferOperation returns an explicitly given, non-empty operation    *)
(* unchanged, whatever files are present; with no explicit operation it    *)
(* returns CREATE for an object only, DELETE for an oldObject only, UPDATE *)
(* for both, and for neither an error, never CONNECT or an empty operation *)
(* without an error.                                                       *)
C20_InferOperation ==
    (pc = "done" /\ out.op = "InferOperation")
    =>  IF tc.requestOpStr # ""
        THEN out.status = "result" /\ out.result = tc.requestOpStr
        ELSE IF tc.hasObject /\ ~tc.hasOldObject
        THEN out.status = "result" /\ out.result = "CREATE"
        ELSE IF ~tc.hasObject /\ tc.hasOldObject
        THEN out.status = "result" /\ out.result = "DELETE"
        ELSE IF tc.hasObject /\ tc.hasOldObject
        THEN out.status = "result" /\ out.result = "UPDATE"
        ELSE out.status = "error" /\ out.err # NoErr

C20_Witness ==
    /\ pc = "done"
    /\ out.op = "InferOperation"
    /\ tc.requestOpStr = "CONNECT"
    /\ tc.hasObject
    /\ tc.hasOldObject
    /\ out.status = "result"
    /\ out.result = "CONNECT"

---------------------------------------------------------------------------
(* What the claims about the loader speak of.                              *)

(* buildTestRequest has assembled a test, with no parsing error.           *)
Built == pc = "done" /\ out.op = "buildTestRequest" /\ out.result.Error = NoErr

(* C21 as stated: when the request file is absent or names no operation,   *)
(* the operation of the test's request is inferred from the files present: *)
(* CREATE when only the object file is there, DELETE when only the         *)
(* oldObject file is, UPDATE when both are.                                *)
C21_OperationInferred_AsStated ==
    (Built /\ (tc.files.request.isNil \/ tc.files.request.operation = ""))
    =>  /\ (~tc.files.object.isNil /\ tc.files.oldObject.isNil)
               => out.result.Request.operation = "CREATE"
        /\ (tc.files.object.isNil /\ ~tc.files.oldObject.isNil)
               => out.result.Request.operation = "DELETE"
        /\ (~tc.files.object.isNil /\ ~tc.files.oldObject.isNil)
               => out.result.Request.operation = "UPDATE"

(* C22 as stated: whichever of the object, oldObject and request files a   *)
(* test is made of, its message file sets the expected denial message of   *)
(* the test.                                                               *)
C22_MessageFileSetsExpectation_AsStated ==
    (Built /\ ~tc.files.message.isNil)
    =>  out.result.ExpectMessage = TrimSpace(tc.files.message.content)

---------------------------------------------------------------------------
(* What the claims about the command and the reporter speak of.            *)

Exited == pc = "done" /\ out.op = "main"

(* The command line does not parse.                                        *)
ArgsInvalid == tc.args.flags = "invalid"

(* The command line parses and a path fails to load.                       *)
LoadFails ==
    /\ tc.args.flags = "valid"
    /\ \E i \in 1..Len(tc.args.paths) : tc.args.paths[i].err

(* The tests could not be set up: a path fails to load, or the evaluator   *)
(* cannot be created.                                                      *)
ConfigurationError == LoadFails \/ (tc.args.flags = "valid" /\ tc.evaluatorErr)

(* The tests were run, and the outcomes of all of them.                    *)
TestsRan == tc.args.flags = "valid" /\ ~ConfigurationError
RanOutcomes ==
    UNION {{tc.args.paths[i].suites[1].Tests[j] :
              j \in 1..Len(tc.args.paths[i].suites[1].Tests)} : i \in 1..Len(tc.args.paths)}

(* C23 as stated: the exit code is 0 when all tests passed, 1 when one or  *)
(* more tests failed, and 2 when the command line is invalid or the tests  *)
(* could not be set up and run.                                            *)
C23_ExitCodes_AsStated ==
    Exited =>
        /\ (TestsRan /\ RanOutcomes \subseteq {"pass"}) => out.code = 0
        /\ (TestsRan /\ ~(RanOutcomes \subseteq {"pass"})) => out.code = 1
        /\ (ArgsInvalid \/ ConfigurationError) => out.code = 2

(* The reporter calls made so far, counted.                                *)
RECURSIVE SumOver(_, _)
SumOver(f, names) ==
    IF names = {} THEN 0
    ELSE LET t == CHOOSE x \in names : TRUE IN f[t] + SumOver(f, names \ {t})
Started == SumOver(calls.starts, TestNames)
ReportedPassing == SumOver(calls.passes, TestNames)
ReportedFailing == SumOver(calls.fails, TestNames)

(* Every started test is reported exactly once: each test has been         *)
(* reported as often as it was started.                                    *)
ReportedOnce == \A t \in TestNames : calls.passes[t] + calls.fails[t] = calls.starts[t]

(* C24: after any sequence of reporter calls in which every started test   *)
(* is reported exactly once, Stats returns the number of tests started,    *)
(* the number reported as passing and the number reported as failing, and  *)
(* total = passed + failed; Summary returns an error iff failed > 0, and   *)
(* that error wraps errTestsFailed and states the failed count.            *)
C24_StatsAndSummary ==
    (tc.via = "Reporter" /\ ReportedOnce) =>
        /\ Stats(rep) = <<Started, ReportedPassing, ReportedFailing>>
        /\ Stats(rep)[1] = Stats(rep)[2] + Stats(rep)[3]
        /\ (pc = "done") =>
              /\ (out.err # NoErr) <=> (Stats(rep)[3] > 0)
              /\ (out.err # NoErr) =>
                    out.err = <<errTestsFailed, ": ", ToString(ReportedFailing)>>

(* Summary has returned the error after tests that passed and tests that   *)
(* failed, each started once and reported once.                            *)
C24_Witness ==
    /\ tc.via = "Reporter" /\ pc = "done" /\ out.op = "Summary"
    /\ \A t \in TestNames : calls.starts[t] = 1 /\ calls.passes[t] + calls.fails[t] = 1
    /\ ReportedPassing = 1 /\ ReportedFailing = 1
    /\ out.err = <<errTestsFailed, ": ", "1">>

---------------------------------------------------------------------------
(* The trace of a call of EvaluateValidating, stage by stage.              *)
ValidatingDone == pc = "done" /\ out.op = "EvaluateValidating"
ConditionsEvaluated == StageOf(out.trace, "matchCondition")
AnnotationsEvaluated == StageOf(out.trace, "auditAnnotation")
ValidationsEvaluated == StageOf(out.trace, "validation")
MessagesEvaluated == StageOf(out.trace, "messageExpression")

(* The entries of one stage are the first expressions of the policy for    *)
(* that stage, in declared order.                                          *)
InDeclaredOrder(entries, expressions) ==
    /\ Len(entries) <= Len(expressions)
    /\ \A k \in 1..Len(entries) :
          entries[k].index = k /\ entries[k].expression = expressions[k]

(* A match condition or an audit annotation ended in a fatal error.        *)
EarlierStageFails ==
    \/ \E k \in 1..Len(ConditionsEvaluated) :
          ConditionsEvaluated[k].outcome \notin {"true", "false"}
    \/ \E k \in 1..Len(AnnotationsEvaluated) : AnnotationsEvaluated[k].outcome = "error"

(* C25: within one call of EvaluateValidating the stages run in the order  *)
(* namespace selector, match conditions, audit annotations, validations,   *)
(* each in declared order.  Nothing is evaluated when the selector fails   *)
(* or excludes; an expression of a later stage is evaluated only after     *)
(* every expression of the earlier stages was evaluated without error; a   *)
(* fatal error of a match condition or an audit annotation is returned     *)
(* with no validation evaluated; and a validation is evaluated only after  *)
(* the validations before it returned true.                                *)
C25_StageOrder ==
    ValidatingDone =>
        /\ out.trace = ConditionsEvaluated \o AnnotationsEvaluated
                       \o ValidationsEvaluated \o MessagesEvaluated
        /\ (~SelectorParses \/ SelectorExcludes) => out.trace = <<>>
        /\ InDeclaredOrder(ConditionsEvaluated,
                           [k \in 1..Len(tc.policy.MatchConditions) |->
                               tc.policy.MatchConditions[k].Expression])
        /\ InDeclaredOrder(AnnotationsEvaluated,
                           [k \in 1..Len(tc.policy.AuditAnnotations) |->
                               tc.policy.AuditAnnotations[k].ValueExpression])
        /\ InDeclaredOrder(ValidationsEvaluated,
                           [k \in 1..Len(tc.policy.Validations) |->
                               tc.policy.Validations[k].Expression])
        /\ (AnnotationsEvaluated # <<>> \/ ValidationsEvaluated # <<>>) =>
              /\ Len(ConditionsEvaluated) = Len(tc.policy.MatchConditions)
              /\ \A k \in 1..Len(ConditionsEvaluated) : ConditionsEvaluated[k].outcome = "true"
        /\ ValidationsEvaluated # <<>> =>
              /\ Len(AnnotationsEvaluated) = Len(tc.policy.AuditAnnotations)
              /\ \A k \in 1..Len(AnnotationsEvaluated) :
                    AnnotationsEvaluated[k].outcome # "error"
        /\ EarlierStageFails => (out.status = "error" /\ ValidationsEvaluated = <<>>)
        /\ \A k \in 1..(Len(ValidationsEvaluated) - 1) :
              ValidationsEvaluated[k].outcome = "true"
        /\ MessagesEvaluated # <<>> =>
              ValidationsEvaluated[Len(ValidationsEvaluated)].outcome = "false"

(* The match condition passes, the audit annotation fails, and the error   *)
(* is returned although the policy's validation would have denied.         *)
C25_Witness ==
    /\ ValidatingDone
    /\ out.status = "error"
    /\ Len(ConditionsEvaluated) = 1 /\ ConditionsEvaluated[1].outcome = "true"
    /\ Len(AnnotationsEvaluated) = 1 /\ AnnotationsEvaluated[1].outcome = "error"
    /\ Len(tc.policy.Validations) = 1 /\ tc.policy.Validations[1].Expression = "false"
    /\ ValidationsEvaluated = <<>>

---------------------------------------------------------------------------
(* What the claims about the mutations speak of.                           *)

(* EvaluateMutating, called directly, has returned a patched object.       *)
Patched ==
    /\ Returned("EvaluateMutating")
    /\ tc.via = "direct"
    /\ out.result.PatchedObject # 0
PatchedDocument == heap[out.result.PatchedObject].m
InputDocument == tc.memory[tc.Object].m

(* The expression of a mutation, "" when it has none.                      *)
MutationExpression(mutation) ==
    CASE mutation.PatchType = "JSONPatch" /\ ~mutation.JSONPatch.isNil ->
             mutation.JSONPatch.Expression
      [] mutation.PatchType = "ApplyConfiguration" /\ ~mutation.ApplyConfiguration.isNil ->
             mutation.ApplyConfiguration.Expression
      [] OTHER -> ""

(* What a mutation writes, read off its expression: the key, and the value *)
(* it leaves there or the removal of the key.                              *)
Writes(mutation) ==
    LET expression == MutationExpression(mutation)
    IN  CASE expression = "[JSONPatch{op: 'add', path: '/b', value: 'p'}]" ->
                 [isNil |-> FALSE, key |-> "b", removes |-> FALSE, value |-> S("p")]
          [] expression = "[JSONPatch{op: 'replace', path: '/a', value: 'q'}]" ->
                 [isNil |-> FALSE, key |-> "a", removes |-> FALSE, value |-> S("q")]
          [] expression = "[JSONPatch{op: 'remove', path: '/b'}]" ->
                 [isNil |-> FALSE, key |-> "b", removes |-> TRUE, value |-> S("")]
          [] expression = "Object{b: 'c'}" ->
                 [isNil |-> FALSE, key |-> "b", removes |-> FALSE, value |-> S("c")]
          [] expression = "Object{a: Object{n: 'c'}}" ->
                 [isNil |-> FALSE, key |-> "a", removes |-> FALSE,
                  value |-> M([k \in {"n"} |-> S("c")])]
          [] OTHER -> Nil

(* The mutations of the policy that write the key, by index.               *)
Writers(key) ==
    {i \in 1..Len(tc.policy.Mutations) :
        ~Writes(tc.policy.Mutations[i]).isNil /\ Writes(tc.policy.Mutations[i]).key = key}
LastWriter(key) == CHOOSE i \in Writers(key) : \A j \in Writers(key) : j <= i

(* C26: the patched object EvaluateMutating returns is the fold of the     *)
(* policy's mutations, in declared order, over a copy of the input object, *)
(* whatever the patch types: under every key the result holds what the     *)
(* last mutation that writes the key leaves there, and what the input held *)
(* when no mutation writes it.                                             *)
C26_DeclaredOrderFold ==
    Patched =>
        \A key \in {"a", "b"} :
            IF Writers(key) = {}
            THEN /\ key \in DOMAIN PatchedDocument <=> key \in DOMAIN InputDocument
                 /\ key \in DOMAIN InputDocument =>
                       JSONRoundTrip(PatchedDocument[key]) = JSONRoundTrip(InputDocument[key])
            ELSE LET last == Writes(tc.policy.Mutations[LastWriter(key)])
                 IN  IF last.removes THEN key \notin DOMAIN PatchedDocument
                     ELSE key \in DOMAIN PatchedDocument /\ PatchedDocument[key] = last.value

(* A configuration and then a patch write the same key, and the patch's    *)
(* value is the one in the result.                                         *)
C26_Witness ==
    /\ Patched
    /\ Len(tc.policy.Mutations) = 2
    /\ MutationExpression(tc.policy.Mutations[1]) = "Object{b: 'c'}"
    /\ MutationExpression(tc.policy.Mutations[2])
           = "[JSONPatch{op: 'add', path: '/b', value: 'p'}]"
    /\ PatchedDocument["b"] = S("p")

---------------------------------------------------------------------------
(* merged is the merge of src into dst: under each key of src the merge of *)
(* the two values when dst has the key and both are mappings, and src's    *)
(* value otherwise; under each other key of dst its value; no other key.   *)
RECURSIVE IsMergeOf(_, _, _)
IsMergeOf(merged, dst, src) ==
    /\ DOMAIN merged = (DOMAIN dst) \cup (DOMAIN src)
    /\ \A key \in DOMAIN src :
          IF key \in DOMAIN dst /\ IsMap(dst[key]) /\ IsMap(src[key])
          THEN IsMap(merged[key]) /\ IsMergeOf(merged[key].m, dst[key].m, src[key].m)
          ELSE merged[key] = src[key]
    /\ \A key \in (DOMAIN dst) \ (DOMAIN src) : merged[key] = dst[key]

(* C27: mergeObjects yields, for each key of src, the recursive merge of   *)
(* the two values when dst already has the key and both are mappings, and  *)
(* src's value otherwise, sequences and scalars being replaced whole;      *)
(* every key of dst that src does not mention keeps its value, at every    *)
(* nesting level.                                                          *)
C27_MergeObjects ==
    (pc = "done" /\ out.op = "mergeObjects") => IsMergeOf(out.result, tc.dst, tc.src)

(* A merge two levels deep: under a the mappings are merged, under a.n     *)
(* too, a.o is kept from dst beside the q that src adds, and the sequence  *)
(* under b is replaced whole.                                              *)
C27_Witness ==
    /\ pc = "done" /\ out.op = "mergeObjects"
    /\ tc.dst = [k \in {"a", "b"} |->
                    IF k = "a"
                    THEN M([j \in {"n", "o"} |->
                              IF j = "n" THEN M([i \in {"q"} |-> L(<<"z">>)]) ELSE S("y")])
                    ELSE L(<<"x", "y">>)]
    /\ tc.src = [k \in {"a", "b"} |->
                    IF k = "a" THEN M([j \in {"n"} |-> M([i \in {"p"} |-> S("x")])])
                    ELSE L(<<"z">>)]
    /\ out.result["b"] = L(<<"z">>)
    /\ out.result["a"].m["o"] = S("y")
    /\ out.result["a"].m["n"].m = [i \in {"p", "q"} |-> IF i = "p" THEN S("x") ELSE L(<<"z">>)]

---------------------------------------------------------------------------
(* The mutation that copies what the variable object holds under a to the  *)
(* key c of the working object.                                            *)
CopiesA == "[JSONPatch{op: 'add', path: '/c', value: object.a}]"
Copiers ==
    {i \in 1..Len(tc.policy.Mutations) : MutationExpression(tc.policy.Mutations[i]) = CopiesA}

(* The object the variable object is bound to: the input object, the old   *)
(* object when there is none.                                              *)
OriginalDocument == tc.memory[IF tc.Object # 0 THEN tc.Object ELSE tc.OldObject].m

(* C28: within one call of EvaluateMutating every mutation expression is   *)
(* evaluated with the variable object bound to the original input object,  *)
(* the old object when there is no object: the value a mutation reads from *)
(* it is the original one, also after an earlier mutation of the chain     *)
(* wrote over it in the working object, which holds the earlier write.     *)
C28_ObjectIsTheOriginal ==
    /\ (Patched /\ Copiers # {}) =>
          /\ PatchedDocument["c"] = JSONRoundTrip(OriginalDocument["a"])
          /\ Writers("a") # {} =>
                PatchedDocument["a"] = Writes(tc.policy.Mutations[LastWriter("a")]).value
    /\ (pc = "done" /\ out.op = "EvaluateMutating" /\ tc.via = "direct") =>
          \A k \in 1..Len(out.trace) :
              out.trace[k].expression = CopiesA => out.trace[k].outcome = "list"

(* A mutation replaces a in the working object, the next one copies        *)
(* object.a, and the copy is the original value while the working object   *)
(* holds the replacement.                                                  *)
C28_Witness ==
    /\ Patched
    /\ Len(tc.policy.Mutations) = 2
    /\ MutationExpression(tc.policy.Mutations[1])
           = "[JSONPatch{op: 'replace', path: '/a', value: 'q'}]"
    /\ MutationExpression(tc.policy.Mutations[2]) = CopiesA
    /\ OriginalDocument["a"] = S("x")
    /\ PatchedDocument["c"] = S("x")
    /\ PatchedDocument["a"] = S("q")

---------------------------------------------------------------------------
(* C29 as stated: EvaluateMutating called with no object and an old        *)
(* object, for a policy whose match conditions pass, returns a result or a *)
(* fatal error, whatever the mutations yield; it never crashes.            *)
C29_DeleteNeverCrashes_AsStated ==
    ( /\ pc = "done"
      /\ out.op = "EvaluateMutating"
      /\ tc.Object = 0
      /\ tc.OldObject # 0
      /\ ConditionsPass )
    => out.status \in {"result", "error"}

---------------------------------------------------------------------------
(* C30: every EvaluationResult that EvaluateValidating or EvaluateMutating *)
(* returns has a consistent shape.  A result that is not allowed has a     *)
(* non-empty message, no warning and no patched object; a result with      *)
(* warnings is allowed, has exactly one warning and an empty message; a    *)
(* patched object comes only from EvaluateMutating, in an allowed result;  *)
(* and when an error is returned no result comes with it.                  *)
C30_ResultShape ==
    (pc = "done" /\ out.op \in {"EvaluateValidating", "EvaluateMutating"}) =>
        /\ out.status = "result" =>
              /\ ~out.result.Allowed =>
                    /\ out.result.Message # <<>>
                    /\ out.result.Warnings = <<>>
                    /\ out.result.PatchedObject = 0
              /\ out.result.Warnings # <<>> =>
                    /\ out.result.Allowed
                    /\ Len(out.result.Warnings) = 1
                    /\ out.result.Message = <<>>
              /\ out.result.PatchedObject # 0 =>
                    /\ out.op = "EvaluateMutating"
                    /\ out.result.Allowed
        /\ out.status = "error" => (out.err # NoErr /\ "result" \notin DOMAIN out)
        /\ "result" \in DOMAIN out => out.status = "result"

(* A validation with no message of its own fails under a binding that      *)
(* denies: the result is not allowed and carries the default message.      *)
C30_Witness ==
    /\ Returned("EvaluateValidating")
    /\ ~out.result.Allowed
    /\ \E i \in 1..Len(tc.policy.Validations) :
          /\ FirstFalseValidation(i)
          /\ tc.policy.Validations[i].Message = <<>>
          /\ tc.policy.Validations[i].MessageExpression = ""
    /\ out.result.Message # <<>>
    /\ out.result.Warnings = <<>>
    /\ out.result.PatchedObject = 0

====
